---- MODULE Spec2Model ----
(***************************************************************************)
(* A model of the Meep runtime core: the History store and its reducer     *)
(* (graphs/_data.py), the MCP tool thread (graphs/_mcp.py) and the tool     *)
(* scheduling stages of the pipeline (graphs/agents/meep.py).               *)
(*                                                                         *)
(* Dates are integers (one unit = one second).  Python's None is modelled   *)
(* by NoDate for optional dates and by "none" for optional strings.         *)
(***************************************************************************)
EXTENDS Integers, Sequences, FiniteSets, TLC

VARIABLES
    history,      \* the History held by the store (State["history"])
    now,          \* the wall clock read by datetime.datetime.now()
    applied,      \* number of reducer applications made so far
    lastOp,       \* what the last reducer application was and how it ended
    mcp,          \* the MCPThread "meep": pending requests, tasks, terminal queue
    pipe,         \* the run in progress: stage position and State["internal_updates"]
    log,          \* record of submissions, produced and returned responses
    pair          \* two diffs and the stores their two orders of application give

vars == <<history, now, applied, lastOp, mcp, pipe, log, pair>>

----------------------------------------------------------------------------
(* Bounds of the model *)

MaxDate == 2
MaxMsgs == 3
MaxApply == 2

(* Optional[datetime] = None *)
NoDate == -100

ChannelIds == {"c1", "c2"}
ChannelOrder == <<"c1", "c2">>
ToolIds == {"t1", "t2"}
Dates == 0..MaxDate

----------------------------------------------------------------------------
(* Sequence helpers (list operations of the Python source) *)

Max(a, b) == IF a >= b THEN a ELSE b
Min(a, b) == IF a <= b THEN a ELSE b

SetMax(S) == CHOOSE x \in S : \A y \in S : y <= x
SetMin(S) == CHOOSE x \in S : \A y \in S : x <= y

Range(s) == {s[i] : i \in DOMAIN s}

\* del list[i0] with a 0-based index
DelAt(s, i0) == [k \in 1..(Len(s) - 1) |-> IF k <= i0 THEN s[k] ELSE s[k + 1]]

\* list.insert(0, x)
InsertHead(s, x) == <<x>> \o s

RECURSIVE InsertByDate(_, _)
InsertByDate(s, m) ==
    IF s = <<>> THEN <<m>>
    ELSE IF s[Len(s)].date <= m.date THEN Append(s, m)
    ELSE Append(InsertByDate(SubSeq(s, 1, Len(s) - 1), m), s[Len(s)])

\* list.sort(key=lambda msg: msg.date): a stable sort
RECURSIVE SortByDate(_)
SortByDate(s) ==
    IF s = <<>> THEN <<>>
    ELSE InsertByDate(SortByDate(SubSeq(s, 1, Len(s) - 1)), s[Len(s)])

RECURSIVE InsertByMinDate(_, _)
InsertByMinDate(s, x) ==
    IF s = <<>> THEN <<x>>
    ELSE IF s[Len(s)].min_date <= x.min_date THEN Append(s, x)
    ELSE Append(InsertByMinDate(SubSeq(s, 1, Len(s) - 1), x), s[Len(s)])

\* sorted(indices, reverse=True)
RECURSIVE SortDesc(_)
SortDesc(s) ==
    IF s = <<>> THEN <<>>
    ELSE LET m == SetMax(Range(s))
             i == CHOOSE k \in DOMAIN s : s[k] = m
         IN <<m>> \o SortDesc([k \in 1..(Len(s) - 1) |-> IF k < i THEN s[k] ELSE s[k + 1]])

\* the keys of a dict with integer keys, ascending
RECURSIVE SortAsc(_)
SortAsc(S) ==
    IF S = {} THEN <<>>
    ELSE LET m == SetMin(S) IN <<m>> \o SortAsc(S \ {m})

----------------------------------------------------------------------------
(* Messages and tool states *)

EXTERNAL_STATUS_MAPPING(internal_status) ==
    IF internal_status = "completed" THEN "success" ELSE "error"

InternalToolMessage(internal_status, status, content) ==
    [internal_status |-> internal_status, status |-> status, content |-> content]

\* InternalToolMessage.set_status; content "none" is Python's None
set_status(tm, internal_status, content) ==
    [internal_status |-> internal_status,
     status |-> EXTERNAL_STATUS_MAPPING(internal_status),
     content |-> IF content # "none" THEN content ELSE tm.content]

Message(type, date, text, calls, skip, states, lifespan) ==
    [type |-> type, date |-> date, text |-> text, calls |-> calls,
     skip |-> skip, states |-> states, lifespan |-> lifespan]

HumanMessage_(date) == Message("human", date, "hi", {}, {}, <<>>, 0)

SystemMessage_(date, text, lifespan) == Message("system", date, text, {}, {}, <<>>, lifespan)

\* AIMessage_.from_message: every tool call gets an unconfirmed ToolState
from_message(date, calls, skip) ==
    Message("ai", date, "re", calls, skip,
            [t \in calls |-> set_status(InternalToolMessage("unconfirmed", "error", "wait"),
                                        "unconfirmed", "none")],
            0)

\* the pydantic validation of a raw dict message: a missing date defaults to
\* now, missing internal_tool_messages default to the empty dict, and a type
\* outside the discriminated union is a validation error
ValidType(raw) == raw.type \in {"human", "ai", "system"}

model_validate_structured_message(raw, clock) ==
    [raw EXCEPT !.date = IF raw.date = NoDate THEN clock ELSE raw.date]

ToolUpdatedText(tid) == IF tid = "t1" THEN "#toolupdated#t1" ELSE "#toolupdated#t2"

----------------------------------------------------------------------------
(* Channels, History and the update documents *)

Channel(clock) ==
    [name |-> "id",
     wakeup_url |-> "none",
     messages |-> <<>>,
     summaries |-> <<>>,
     last_activity |-> clock,
     max_summary_date |-> clock,
     no_reactive_tool_call_before |-> NoDate,
     no_temporary_message_before |-> NoDate]

History == [current_channel |-> "none", channels |-> <<>>]

is_empty_history(h) == h.current_channel = "none" /\ DOMAIN h.channels = {}

InternalChannelUpdates ==
    [name |-> "none",
     wakeup_url |-> "none",
     delete_before |-> NoDate,
     no_reactive_tool_call_before |-> NoDate,
     no_temporary_message_before |-> NoDate,
     new_messages |-> <<>>,
     message_updates |-> <<>>,
     message_deletes |-> <<>>,
     message_append_left |-> <<>>,
     new_summaries |-> <<>>]

InternalUpdates == [channel_updates |-> <<>>, current_channel |-> "none", tool_updates |-> <<>>]

\* get_current_channel: the stored channel, or an empty stand-in
get_current_channel_id(h) ==
    IF h.current_channel = "none" THEN "unregistered" ELSE h.current_channel

get_current_channel(h) ==
    IF h.current_channel \in DOMAIN h.channels THEN h.channels[h.current_channel]
    ELSE Channel(0)

----------------------------------------------------------------------------
(* History.locate_tool_calls *)

NoPos == [cid |-> "none", idx |-> -1]

\* one pass over the messages of a channel: for index, message in enumerate(...)
RECURSIVE ScanMessages(_, _, _, _)
ScanMessages(cid, msgs, i, st) ==
    IF i > Len(msgs) THEN st
    ELSE LET m == msgs[i]
             hit == IF m.type = "ai" /\ m.calls # {}
                    THEN {t \in DOMAIN m.states : st.queue[t] > 0}
                    ELSE {}
             st2 == [queue |-> [t \in ToolIds |-> IF t \in hit THEN st.queue[t] - 1
                                                    ELSE st.queue[t]],
                     results |-> [t \in ToolIds |-> IF t \in hit
                                                      THEN [cid |-> cid, idx |-> i - 1]
                                                      ELSE st.results[t]]]
         IN ScanMessages(cid, msgs, i + 1, st2)

\* a search that would take the unchecked channels in dict order
NextChannel_DictOrder(h, checked) ==
    LET cand == SelectSeq(ChannelOrder,
                          LAMBDA c : c \in DOMAIN h.channels /\ c \notin checked)
    IN IF cand = <<>> THEN "none" ELSE cand[1]

\* "Look for a new channel": the unchecked channel of greatest last_activity,
\* the first one in dict order on a tie (the comparison is a strict >)
NextChannel(h, checked) ==
    LET cand == SelectSeq(ChannelOrder,
                          LAMBDA c : c \in DOMAIN h.channels /\ c \notin checked)
        best == CHOOSE k \in DOMAIN cand :
                  /\ \A j \in DOMAIN cand :
                        h.channels[cand[j]].last_activity <= h.channels[cand[k]].last_activity
                  /\ \A j \in 1..(k - 1) :
                        h.channels[cand[j]].last_activity < h.channels[cand[k]].last_activity
    IN IF cand = <<>> THEN "none" ELSE cand[best]

RECURSIVE LocateLoop(_, _, _, _, _)
LocateLoop(h, cid, msgs, checked, st) ==
    LET st2 == ScanMessages(cid, msgs, 1, st)
        checked2 == checked \cup {cid}
        nxt == NextChannel(h, checked2)
    IN IF (\E t \in ToolIds : st2.queue[t] > 0) /\ nxt # "none"
       THEN LocateLoop(h, nxt, h.channels[nxt].messages, checked2, st2)
       ELSE st2.results

\* tool_call_ids is a list: an id asked for twice is looked for twice
locate_tool_calls(h, tool_call_ids) ==
    LocateLoop(h, get_current_channel_id(h), get_current_channel(h).messages, {},
               [queue |-> [t \in ToolIds |->
                              Cardinality({k \in DOMAIN tool_call_ids : tool_call_ids[k] = t})],
                results |-> [t \in ToolIds |-> NoPos]])

----------------------------------------------------------------------------
(* history_reducer, the InternalUpdates branch, one channel at a time *)

\* 2. positional updates, the stored date kept; an index out of bounds raises
RECURSIVE UpdateLoop(_, _, _)
UpdateLoop(msgs, message_updates, keys) ==
    IF keys = <<>> THEN [messages |-> msgs, err |-> "none"]
    ELSE LET i0 == Head(keys) IN
         IF i0 < Len(msgs)
         THEN UpdateLoop([msgs EXCEPT ![i0 + 1] =
                             [message_updates[i0] EXCEPT !.date = msgs[i0 + 1].date]],
                         message_updates, Tail(keys))
         ELSE [messages |-> msgs, err |-> "index"]

\* 3. index deletes, greatest index first, indices out of range skipped
RECURSIVE DeleteLoop(_, _)
DeleteLoop(msgs, idxs) ==
    IF idxs = <<>> THEN msgs
    ELSE DeleteLoop(IF Head(idxs) < Len(msgs) THEN DelAt(msgs, Head(idxs)) ELSE msgs,
                    Tail(idxs))

\* a prune that would drop only the oldest of the outdated entries of summaries
DeleteBefore_OneKey(ch, T, clock) ==
    LET old == {k \in DOMAIN ch.summaries : k < T}
        keep == IF old = {} THEN DOMAIN ch.summaries
                ELSE DOMAIN ch.summaries \ {SetMin(old)}
        summaries == [k \in keep |-> ch.summaries[k]]
        all_summary_dates ==
            UNION {{summaries[k][j].min_date : j \in DOMAIN summaries[k]} : k \in keep}
    IN [ch EXCEPT !.messages = SelectSeq(ch.messages, LAMBDA m : m.date >= T),
                  !.summaries = summaries,
                  !.max_summary_date =
                      IF keep # {} THEN SetMin(all_summary_dates) ELSE clock]

\* a prune that would drop the summaries ending at T as well
DeleteBefore_Strict(ch, T, clock) ==
    LET keep == {k \in DOMAIN ch.summaries : k > T}
        summaries == [k \in keep |-> ch.summaries[k]]
        all_summary_dates ==
            UNION {{summaries[k][j].min_date : j \in DOMAIN summaries[k]} : k \in keep}
    IN [ch EXCEPT !.messages = SelectSeq(ch.messages, LAMBDA m : m.date >= T),
                  !.summaries = summaries,
                  !.max_summary_date =
                      IF keep # {} THEN SetMin(all_summary_dates) ELSE clock]

\* 3. delete_before: prune messages and summaries, recompute max_summary_date
DeleteBefore(ch, T, clock) ==
    LET keep == {k \in DOMAIN ch.summaries : k >= T}
        summaries == [k \in keep |-> ch.summaries[k]]
        all_summary_dates ==
            UNION {{summaries[k][j].min_date : j \in DOMAIN summaries[k]} : k \in keep}
    IN [ch EXCEPT !.messages = SelectSeq(ch.messages, LAMBDA m : m.date >= T),
                  !.summaries = summaries,
                  !.max_summary_date =
                      IF keep # {}
                      THEN (IF all_summary_dates # {} THEN SetMin(all_summary_dates)
                            ELSE ch.max_summary_date)
                      ELSE clock]

\* a left-append that would keep the incoming dates
RECURSIVE AppendLeftLoop_NoClamp(_, _)
AppendLeftLoop_NoClamp(msgs, news) ==
    IF news = <<>> THEN msgs
    ELSE AppendLeftLoop_NoClamp(InsertHead(msgs, Head(news)), Tail(news))

\* 4. left-append, the incoming date clamped to the head's date
RECURSIVE AppendLeftLoop(_, _)
AppendLeftLoop(msgs, news) ==
    IF news = <<>> THEN msgs
    ELSE LET nm == Head(news)
             cl == IF msgs # <<>> /\ nm.date > msgs[1].date
                   THEN [nm EXCEPT !.date = msgs[1].date] ELSE nm
         IN AppendLeftLoop(InsertHead(msgs, cl), Tail(news))

\* 5. append; needs_sorting is raised by a message older than the current tail
RECURSIVE NewMessagesLoop(_, _, _)
NewMessagesLoop(msgs, news, needs_sorting) ==
    IF news = <<>> THEN [messages |-> msgs, needs_sorting |-> needs_sorting]
    ELSE LET nm == Head(news) IN
         NewMessagesLoop(Append(msgs, nm), Tail(news),
                         needs_sorting \/ (Len(msgs) >= 1 /\ nm.date < msgs[Len(msgs)].date))

\* 7. new summaries, filed under their max_date, each list sorted by min_date
RECURSIVE SummariesLoop(_, _)
SummariesLoop(summaries, news) ==
    IF news = <<>> THEN summaries
    ELSE LET ns == Head(news)
             k == ns.max_date
             added == IF k \notin DOMAIN summaries
                      THEN [j \in DOMAIN summaries \cup {k} |->
                               IF j = k THEN <<ns>> ELSE summaries[j]]
                      ELSE [summaries EXCEPT ![k] = InsertByMinDate(summaries[k], ns)]
         IN SummariesLoop(added, Tail(news))

\* 1.5 and 8: channel metadata
MetadataStep(ch, cu) ==
    [ch EXCEPT
       !.name = IF cu.name # "none" THEN cu.name ELSE @,
       !.wakeup_url = IF cu.wakeup_url # "none" THEN cu.wakeup_url ELSE @,
       !.no_reactive_tool_call_before =
           IF cu.no_reactive_tool_call_before # NoDate
           THEN cu.no_reactive_tool_call_before ELSE @,
       !.no_temporary_message_before =
           IF cu.no_temporary_message_before # NoDate
           THEN cu.no_temporary_message_before ELSE @]

PositionalResult(ch, upd) == [ch |-> [ch EXCEPT !.messages = upd.messages], err |-> upd.err]

PositionalStep(ch, cu) ==
    PositionalResult(ch, UpdateLoop(ch.messages, cu.message_updates,
                                    SortAsc(DOMAIN cu.message_updates)))

DeleteStep(ch, cu) ==
    [ch EXCEPT !.messages = DeleteLoop(@, SortDesc(cu.message_deletes))]

DeleteBeforeStep(ch, cu, clock) ==
    IF cu.delete_before # NoDate THEN DeleteBefore(ch, cu.delete_before, clock) ELSE ch

AppendLeftStep(ch, cu) ==
    [ch EXCEPT !.messages = AppendLeftLoop(@, cu.message_append_left)]

\* a reducer that never re-sorts
SortIfNeeded_Never(app) == app.messages

SortIfNeeded(app) ==
    IF app.needs_sorting THEN SortByDate(app.messages) ELSE app.messages

AppendStep(ch, cu) ==
    [ch EXCEPT !.messages = SortIfNeeded(NewMessagesLoop(@, cu.new_messages, FALSE))]

\* 6. last_activity, refreshed when the diff carries new messages
LastActivityStep(ch, cu) ==
    IF cu.new_messages # <<>>
    THEN [ch EXCEPT !.last_activity =
             SetMax({cu.new_messages[i].date : i \in DOMAIN cu.new_messages})]
    ELSE ch

SummariesStep(ch, cu) ==
    IF cu.new_summaries # <<>>
    THEN [ch EXCEPT
            !.summaries = SummariesLoop(@, cu.new_summaries),
            !.max_summary_date =
                Max(@, SetMax({cu.new_summaries[i].max_date : i \in DOMAIN cu.new_summaries}))]
    ELSE ch

\* steps 3 to 8, not reached when step 2 raised
AfterPositional(p, cu, clock) ==
    IF p.err # "none" THEN p
    ELSE [ch |-> SummariesStep(
                   LastActivityStep(
                     AppendStep(
                       AppendLeftStep(
                         DeleteBeforeStep(DeleteStep(p.ch, cu), cu, clock),
                         cu),
                       cu),
                     cu),
                   cu),
          err |-> "none"]

\* steps 1.5 to 8 of the loop body for one channel; err is the ValueError of
\* step 2, raised before any later step runs
ApplyChannelUpdates(ch0, cu, clock) ==
    AfterPositional(PositionalStep(MetadataStep(ch0, cu), cu), cu, clock)

\* for channel_id, channel_updates in right.channel_updates.items()
RECURSIVE ChannelsLoop(_, _, _, _)
ChannelsNext(h, channel_updates, cids, clock, r) ==
    LET h2 == [h EXCEPT !.channels =
                  [c \in DOMAIN h.channels \cup {Head(cids)} |->
                      IF c = Head(cids) THEN r.ch ELSE h.channels[c]]]
    IN IF r.err # "none" THEN [h |-> h2, err |-> r.err]
       ELSE ChannelsLoop(h2, channel_updates, Tail(cids), clock)

ChannelsLoop(h, channel_updates, cids, clock) ==
    IF cids = <<>> THEN [h |-> h, err |-> "none"]
    ELSE ChannelsNext(h, channel_updates, cids, clock,
            ApplyChannelUpdates(
                \* 1. create the channel if it does not exist
                IF Head(cids) \in DOMAIN h.channels THEN h.channels[Head(cids)]
                ELSE Channel(clock),
                channel_updates[Head(cids)], clock))

\* the temporary status message, its date not earlier than the last message
TempMessage(msgs, tid, clock) ==
    SystemMessage_(IF msgs # <<>> /\ clock < msgs[Len(msgs)].date
                   THEN msgs[Len(msgs)].date ELSE clock,
                   ToolUpdatedText(tid), 1)

\* a test that takes every hosting message as followed by another
NotLast_Always(message_index, msgs) == TRUE

\* is the hosting message followed by another message of its channel
NotLast(message_index, msgs) == message_index < Len(msgs) - 1

\* one tool_update applied at its position
ToolUpdateAt(h, position, tu, clock) ==
    LET msgs1 == [h.channels[position.cid].messages EXCEPT
                     ![position.idx + 1].states[tu.tool_call_id] =
                         set_status(@, tu.internal_status,
                                    IF tu.content # "" THEN tu.content ELSE "none")]
    IN [h EXCEPT !.channels[position.cid].messages =
           IF NotLast(position.idx, msgs1)
           THEN Append(msgs1, TempMessage(msgs1, tu.tool_call_id, clock))
           ELSE msgs1]

\* a loop that ends at the first tool_update it cannot locate
RECURSIVE ToolUpdatesLoop_StopAtMissing(_, _, _, _)
ToolUpdatesLoop_StopAtMissing(h, positions, tool_updates, clock) ==
    IF tool_updates = <<>> THEN h
    ELSE IF positions[Head(tool_updates).tool_call_id] = NoPos THEN h
    ELSE ToolUpdatesLoop_StopAtMissing(
            ToolUpdateAt(h, positions[Head(tool_updates).tool_call_id],
                         Head(tool_updates), clock),
            positions, Tail(tool_updates), clock)

\* for tool_update in right.tool_updates
RECURSIVE ToolUpdatesLoop(_, _, _, _)
ToolUpdatesLoop(h, positions, tool_updates, clock) ==
    IF tool_updates = <<>> THEN h
    ELSE ToolUpdatesLoop(
            IF positions[Head(tool_updates).tool_call_id] = NoPos THEN h
            ELSE ToolUpdateAt(h, positions[Head(tool_updates).tool_call_id],
                              Head(tool_updates), clock),
            positions, Tail(tool_updates), clock)

\* 9. current_channel, then the tool_updates
ToolUpdatesStep(h, right, clock) ==
    ToolUpdatesLoop(h,
                    locate_tool_calls(h, [k \in DOMAIN right.tool_updates |->
                                             right.tool_updates[k].tool_call_id]),
                    right.tool_updates, clock)

\* a current_channel that is overwritten even by None
CurrentChannelStep_Always(h, right) == [h EXCEPT !.current_channel = right.current_channel]

CurrentChannelStep(h, right) ==
    IF right.current_channel # "none"
    THEN [h EXCEPT !.current_channel = right.current_channel] ELSE h

AfterChannels(r, right, clock) ==
    IF r.err # "none" THEN r
    ELSE [h |-> ToolUpdatesStep(CurrentChannelStep(r.h, right), right, clock), err |-> "none"]

\* 4. the InternalUpdates branch, run on the deep copy of left; h is the copy
\* as it stands when the function returns or raises
ApplyInternalUpdates(left, right, clock) ==
    AfterChannels(
        ChannelsLoop(left, right.channel_updates,
                     SelectSeq(ChannelOrder, LAMBDA c : c \in DOMAIN right.channel_updates),
                     clock),
        right, clock)

----------------------------------------------------------------------------
(* history_reducer *)

\* a reducer that works on left itself
model_copy_Shared(left, worked) == worked

\* left = left.model_copy(deep=True): what the object passed as left holds
\* once the branch has run on `worked`
model_copy(left, worked) == left

\* InternalUpdates.model_validate(right) for a raw document
ValidDocument(doc) ==
    \A c \in DOMAIN doc.channel_updates :
        LET cu == doc.channel_updates[c] IN
        /\ \A i \in DOMAIN cu.new_messages : ValidType(cu.new_messages[i])
        /\ \A i \in DOMAIN cu.message_updates : ValidType(cu.message_updates[i])
        /\ \A i \in DOMAIN cu.message_append_left : ValidType(cu.message_append_left[i])

model_validate(doc, clock) ==
    [doc EXCEPT !.channel_updates =
        [c \in DOMAIN doc.channel_updates |->
            LET cu == doc.channel_updates[c] IN
            [cu EXCEPT
               !.new_messages = [i \in DOMAIN @ |->
                                    model_validate_structured_message(@[i], clock)],
               !.message_updates = [i \in DOMAIN @ |->
                                    model_validate_structured_message(@[i], clock)],
               !.message_append_left = [i \in DOMAIN @ |->
                                    model_validate_structured_message(@[i], clock)]]]]

\* The result is the value returned (value), the exception raised if any (err),
\* and what the object passed as left holds afterwards (left).
Outcome(left, r) == [value |-> r.h, err |-> r.err, left |-> model_copy(left, r.h)]

\* a reset that would keep the store
reset_store_Keep(left) == left

\* 1. right == "reset": return History()
reset_store(left) == History

\* a reducer that would always take the incoming History
replace_if_empty_Always(left, right) == right

\* 2. isinstance(right, History): return right if left.is_empty() else left
replace_if_empty(left, right) == IF is_empty_history(left) THEN right ELSE left

history_reducer(left, kind, right, clock) ==
    CASE kind = "reset" -> [value |-> reset_store(left), err |-> "none", left |-> left]
      [] kind = "history" ->
            [value |-> replace_if_empty(left, right), err |-> "none", left |-> left]
      [] kind = "dict" ->
            IF ~ValidDocument(right)
            THEN [value |-> left, err |-> "validation", left |-> left]
            ELSE Outcome(left, ApplyInternalUpdates(left, model_validate(right, clock), clock))
      [] kind = "updates" ->
            Outcome(left, ApplyInternalUpdates(left, right, clock))

\* the store after a reducer call: the returned value, or on an exception the
\* object that was passed as left
Stored(r) == IF r.err # "none" THEN r.left ELSE r.value

----------------------------------------------------------------------------
(* The inputs the reducer is driven with *)

\* messages built by the stages (constructors of _data.py)
HumanEdited(date) == Message("human", date, "ed", {}, {}, <<>>, 0)

StageMessages ==
    {HumanMessage_(d) : d \in Dates}
    \cup {from_message(d, {t}, {}) : d \in Dates, t \in ToolIds}

\* raw messages of a run input document; adapters send no date
RawMessages ==
    {Message("human", NoDate, "hi", {}, {}, <<>>, 0),
     Message("human", 0, "hi", {}, {}, <<>>, 0),
     Message("ai", NoDate, "re", {"t1"}, {}, <<>>, 0),
     Message("tool", NoDate, "hi", {}, {}, <<>>, 0)}

ToolUpdate(tid, internal_status, content) ==
    [tool_call_id |-> tid, internal_status |-> internal_status, content |-> content]

\* what an adapter posts back after the confirmation UI
AdapterToolUpdates ==
    {ToolUpdate(t, s, "") : t \in ToolIds, s \in {"confirmed", "rejected", "canceled"}}

OneChannel(c, cu) == [channel_updates |-> [x \in {c} |-> cu],
                      current_channel |-> "none", tool_updates |-> <<>>]

NewMessageDiffs ==
    {[InternalChannelUpdates EXCEPT !.new_messages = <<m>>] : m \in StageMessages}
    \cup {[InternalChannelUpdates EXCEPT
              !.new_messages = <<HumanMessage_(d1), HumanEdited(d2)>>] :
          d1 \in Dates, d2 \in Dates}

AppendLeftDiffs ==
    {[InternalChannelUpdates EXCEPT !.message_append_left = <<HumanMessage_(d)>>] : d \in Dates}
    \cup {[InternalChannelUpdates EXCEPT
              !.message_append_left = <<HumanMessage_(d1), HumanEdited(d2)>>] :
          d1 \in Dates, d2 \in Dates}

PositionalDiffs ==
    {[InternalChannelUpdates EXCEPT !.message_updates = [k \in {i} |-> HumanEdited(MaxDate)]] :
        i \in 0..MaxMsgs}
    \cup {[InternalChannelUpdates EXCEPT
              !.name = "renamed",
              !.message_updates = [k \in {0, i} |-> HumanEdited(MaxDate)]] : i \in 1..MaxMsgs}

DeleteDiffs ==
    {[InternalChannelUpdates EXCEPT !.message_deletes = <<i>>] : i \in 0..(MaxMsgs - 1)}
    \cup {[InternalChannelUpdates EXCEPT !.message_deletes = <<0, 0>>]}
    \cup {[InternalChannelUpdates EXCEPT !.delete_before = d] : d \in Dates}

\* a History the store can hold: the fold of stage diffs over the empty History
Fold(h, kind, right, clock) == Stored(history_reducer(h, kind, right, clock))

SeedS1 ==
    Fold(History, "updates",
         [OneChannel("c1", [InternalChannelUpdates EXCEPT
              !.new_messages = <<HumanMessage_(0), from_message(1, {"t1"}, {})>>])
          EXCEPT !.current_channel = "c1"], 1)

SeedTwo ==
    Fold(Fold(History, "updates",
              OneChannel("c1", [InternalChannelUpdates EXCEPT
                  !.new_messages = <<from_message(0, {"t1"}, {}), HumanMessage_(1)>>]), 1),
         "updates",
         OneChannel("c2", [InternalChannelUpdates EXCEPT
              !.new_messages = <<from_message(0, {"t2"}, {})>>]), 1)

Seeds == {History, SeedS1, SeedTwo}

----------------------------------------------------------------------------
(* The MCP thread (graphs/_mcp.py) *)

ToolOrder == <<"t1", "t2">>

\* MCPThread.__init__.  pending_requests holds the keys of the dict in
\* insertion order (an MCPRequest hashes and compares by its tool call id);
\* tasks counts the _process_request tasks running per tool call id, waking
\* those that have left the lock of their finally block and not yet posted
\* their wake-up.
MCPThread ==
    [pending_requests |-> <<>>,
     tasks |-> [t \in ToolIds |-> 0],
     terminal_responses |-> <<>>,
     waking |-> [t \in ToolIds |-> 0]]

\* serial stands for the identity of the response object; 0 is a synthesized
\* "processing" response
MCPResponse(tool_call_id, status, content, serial) ==
    [tool_call_id |-> tool_call_id, status |-> status, content |-> content,
     serial |-> serial]

\* add_request, under the lock: create the task, pending_requests[request] = task
add_request(th, tid) ==
    [th EXCEPT !.pending_requests = IF tid \in Range(@) THEN @ ELSE Append(@, tid),
               !.tasks[tid] = @ + 1]

\* MCPClient.add_requests: for request in requests
RECURSIVE add_requests(_, _)
add_requests(th, tids) ==
    IF tids = <<>> THEN th ELSE add_requests(add_request(th, Head(tids)), Tail(tids))

\* what running a tool can do: the tool returns, the tool raises, or the
\* toolkit itself raises before a tool message exists
ToolOutcomes == {"returns", "raises", "toolkit_raises"}

\* BaseTool.arun: the output as a success message, an exception as an error
\* message that carries the traceback
arun(outcome) ==
    IF outcome = "returns" THEN [status |-> "success", content |-> "ok"]
    ELSE [status |-> "error", content |-> "err"]

\* a response whose status does not depend on the tool message
response_of_AlwaysCompleted(tid, outcome, serial) ==
    MCPResponse(tid, "completed", arun(outcome).content, serial)

\* the try / except of _process_request
response_of(tid, outcome, serial) ==
    IF outcome = "toolkit_raises"
    THEN MCPResponse(tid, "failed", "MCP Failed to execute the tool", serial)
    ELSE MCPResponse(tid,
                     IF arun(outcome).status = "success" THEN "completed" ELSE "failed",
                     arun(outcome).content, serial)

\* the finally block of _process_request, under the lock: the response is
\* appended, then the request is deleted from pending_requests.  When an
\* equal request already left the dict the del raises KeyError after the
\* append and the task ends there; otherwise it goes on to its wake-up.
process_request_done(th, response) ==
    [th EXCEPT !.terminal_responses = Append(@, response),
               !.pending_requests = SelectSeq(@, LAMBDA t : t # response.tool_call_id),
               !.tasks[response.tool_call_id] = @ - 1,
               !.waking[response.tool_call_id] =
                   IF response.tool_call_id \in Range(th.pending_requests)
                   THEN @ + 1 ELSE @]

\* await wakeup(...) at the end of _process_request
wakeup_posted(th, tid) == [th EXCEPT !.waking[tid] = @ - 1]

\* a queue that is read without being cleared
Drained_Kept(queue) == queue

\* self.terminal_responses.clear()
Drained(queue) == <<>>

\* a drain that cancels the tasks still running
current_responses_Cancelling(th) ==
    [responses |-> th.terminal_responses \o
                   [i \in 1..Len(th.pending_requests) |->
                       MCPResponse(th.pending_requests[i], "processing", "exec", 0)],
     thread |-> [th EXCEPT !.terminal_responses = <<>>,
                           !.pending_requests = <<>>,
                           !.tasks = [t \in ToolIds |-> 0]]]

\* current_responses: under the lock copy the terminal responses and the
\* pending keys and clear the queue; then one "processing" response per
\* pending request
current_responses(th) ==
    [responses |-> th.terminal_responses \o
                   [i \in 1..Len(th.pending_requests) |->
                       MCPResponse(th.pending_requests[i], "processing", "exec", 0)],
     thread |-> [th EXCEPT !.terminal_responses = Drained(@)]]

\* a drain as the record keeps it
DrainOf(th, responses) == [made |-> TRUE, before |-> th, responses |-> responses]

\* the tool calls a batch reports as still running
ProcessingIds(responses) ==
    {responses[i].tool_call_id : i \in {j \in DOMAIN responses :
                                            responses[j].status = "processing"}}

\* the serials of the terminal responses of a drain
TerminalSerials(responses) ==
    [i \in 1..Len(SelectSeq(responses, LAMBDA r : r.status # "processing")) |->
        SelectSeq(responses, LAMBDA r : r.status # "processing")[i].serial]

----------------------------------------------------------------------------
(* InternalUpdates accumulation *)

\* dict.update on message_updates
DictUpdate(f, g) ==
    [i \in DOMAIN f \cup DOMAIN g |-> IF i \in DOMAIN g THEN g[i] ELSE f[i]]

\* InternalChannelUpdates.merge
InternalChannelUpdates_merge(self, other) ==
    [name |-> IF other.name # "none" THEN other.name ELSE self.name,
     wakeup_url |-> IF other.wakeup_url # "none" THEN other.wakeup_url ELSE self.wakeup_url,
     delete_before |->
        IF other.delete_before # NoDate THEN other.delete_before ELSE self.delete_before,
     no_reactive_tool_call_before |->
        IF other.no_reactive_tool_call_before # NoDate
        THEN other.no_reactive_tool_call_before ELSE self.no_reactive_tool_call_before,
     no_temporary_message_before |->
        IF other.no_temporary_message_before # NoDate
        THEN other.no_temporary_message_before ELSE self.no_temporary_message_before,
     new_messages |-> self.new_messages \o other.new_messages,
     message_updates |-> DictUpdate(self.message_updates, other.message_updates),
     message_deletes |-> self.message_deletes \o other.message_deletes,
     message_append_left |-> self.message_append_left \o other.message_append_left,
     new_summaries |-> self.new_summaries \o other.new_summaries]

\* a reducer that keeps only the diff it is given last
internal_updates_reducer_LastOnly(left, right) == right

\* internal_updates_reducer for an InternalUpdates on the right ("reset" gives
\* InternalUpdates)
internal_updates_reducer(left, right) ==
    [channel_updates |->
        [c \in DOMAIN left.channel_updates \cup DOMAIN right.channel_updates |->
            IF c \notin DOMAIN right.channel_updates THEN left.channel_updates[c]
            ELSE InternalChannelUpdates_merge(
                    IF c \in DOMAIN left.channel_updates
                    THEN left.channel_updates[c] ELSE InternalChannelUpdates,
                    right.channel_updates[c])],
     current_channel |->
        IF right.current_channel # "none" THEN right.current_channel
        ELSE left.current_channel,
     tool_updates |-> left.tool_updates \o right.tool_updates]

\* InternalChannelUpdates.is_empty and InternalUpdates.is_empty
is_empty_channel_updates(cu) == cu = InternalChannelUpdates

is_empty(u) ==
    /\ \A c \in DOMAIN u.channel_updates : is_empty_channel_updates(u.channel_updates[c])
    /\ u.current_channel = "none"
    /\ u.tool_updates = <<>>

----------------------------------------------------------------------------
(* History.find_reactive_tool_calls *)

\* the (tool call, tool message) pairs of a message that are confirmed or
\* unconfirmed, as all_tool_call_info yields them
ReactiveCalls(m) ==
    [i \in 1..Len(SelectSeq(ToolOrder, LAMBDA t :
                    t \in m.calls /\ m.states[t].internal_status
                                        \in {"confirmed", "unconfirmed"})) |->
        [id |-> SelectSeq(ToolOrder, LAMBDA t :
                    t \in m.calls /\ m.states[t].internal_status
                                        \in {"confirmed", "unconfirmed"})[i]]]

ReactiveInfo(m, r) ==
    [id |-> r.id, internal_status |-> m.states[r.id].internal_status,
     skip_confirmation |-> r.id \in m.skip]

\* one message of the reversed scan; acc.before is
\* no_reactive_tool_call_before_this_date
ScanFound(m, acc, rs) ==
    IF rs = <<>> THEN acc
    ELSE [calls |-> acc.calls \o [i \in 1..Len(rs) |-> ReactiveInfo(m, rs[i])],
          before |-> m.date - 1]

ScanMessage(m, acc) ==
    IF m.type = "ai" /\ m.calls # {} THEN ScanFound(m, acc, ReactiveCalls(m)) ELSE acc

\* for message in reversed(channel.messages), with its break
RECURSIVE ReactiveScan(_, _, _, _)
ReactiveScan(msgs, i, before, acc) ==
    IF i = 0 \/ (before # NoDate /\ msgs[i].date <= before) THEN acc
    ELSE ReactiveScan(msgs, i - 1, before, ScanMessage(msgs[i], acc))

AddKey(f, k, v) == [x \in DOMAIN f \cup {k} |-> IF x = k THEN v ELSE f[x]]

ChannelFound(cid, acc, r) ==
    [calls |-> acc.calls \o r.calls,
     updates |-> [acc.updates EXCEPT !.channel_updates =
                     AddKey(@, cid, [InternalChannelUpdates EXCEPT
                                        !.no_reactive_tool_call_before = r.before])]]

ChannelReactive(cid, ch, acc) ==
    IF \/ ch.messages = <<>>
       \/ /\ ch.no_reactive_tool_call_before # NoDate
          /\ ch.messages[Len(ch.messages)].date <= ch.no_reactive_tool_call_before
    THEN acc
    ELSE ChannelFound(cid, acc,
            ReactiveScan(ch.messages, Len(ch.messages), ch.no_reactive_tool_call_before,
                         [calls |-> <<>>, before |-> ch.messages[Len(ch.messages)].date]))

\* for channel in self.channels.values()
RECURSIVE ReactiveChannels(_, _, _)
ReactiveChannels(h, cids, acc) ==
    IF cids = <<>> THEN acc
    ELSE ReactiveChannels(h, Tail(cids),
                          ChannelReactive(Head(cids), h.channels[Head(cids)], acc))

find_reactive_tool_calls(h) ==
    ReactiveChannels(h, SelectSeq(ChannelOrder, LAMBDA c : c \in DOMAIN h.channels),
                     [calls |-> <<>>, updates |-> InternalUpdates])

----------------------------------------------------------------------------
(* History.generate_updates_from_mcp_responses *)

\* a History method that leaves self as it is
MutateAt_Pure(h, position, resp) == h

\* message.internal_tool_messages[tool_call_id].set_status(...) on the message
\* of self: the History the method is called on is changed in place
MutateAt(h, position, resp) ==
    [h EXCEPT !.channels[position.cid].messages[position.idx + 1]
                 .states[resp.tool_call_id] = set_status(@, resp.status, resp.content)]

AppendNewMessage(upd, cid, m) ==
    [upd EXCEPT !.channel_updates =
        AddKey(@, cid,
               [(IF cid \in DOMAIN @ THEN @[cid] ELSE InternalChannelUpdates)
                   EXCEPT !.new_messages = Append(@, m)])]

\* the temporary message when the AIMessage is not last in the channel
TempUpdate(h, position, resp, upd, clock) ==
    IF NotLast(position.idx, h.channels[position.cid].messages)
    THEN AppendNewMessage(upd, position.cid,
                          SystemMessage_(clock, ToolUpdatedText(resp.tool_call_id), 1))
    ELSE upd

\* for mcpresp in responses; a call that is not located raises ValueError
RECURSIVE MCPResponsesLoop(_, _, _, _, _)
MCPResponsesLoop(h, positions, responses, upd, clock) ==
    IF responses = <<>> THEN [h |-> h, updates |-> upd, err |-> "none"]
    ELSE IF positions[Head(responses).tool_call_id] = NoPos
    THEN [h |-> h, updates |-> upd, err |-> "location"]
    ELSE MCPResponsesLoop(
            MutateAt(h, positions[Head(responses).tool_call_id], Head(responses)),
            positions, Tail(responses),
            TempUpdate(h, positions[Head(responses).tool_call_id], Head(responses),
                       upd, clock),
            clock)

\* h is self after the call, updates the InternalUpdates returned
generate_updates_from_mcp_responses(h, responses, clock) ==
    MCPResponsesLoop(h,
                     locate_tool_calls(h, [i \in DOMAIN responses |->
                                              responses[i].tool_call_id]),
                     responses, InternalUpdates, clock)

----------------------------------------------------------------------------
(* The lifespan countdown of the cleanup stage *)

LifespanAt(m, index, cu) ==
    [cu EXCEPT
       !.message_updates =
           IF m.lifespan > 1
           THEN DictUpdate(@, [x \in {index} |-> [m EXCEPT !.lifespan = @ - 1]]) ELSE @,
       !.message_deletes = IF m.lifespan > 1 THEN @ ELSE Append(@, index),
       !.no_temporary_message_before = Min(@, m.date - 1)]

\* for i, message in enumerate(channel.messages); lifespan 0 is None
RECURSIVE LifespanLoop(_, _, _)
LifespanLoop(msgs, i, cu) ==
    IF i > Len(msgs) THEN cu
    ELSE LifespanLoop(msgs, i + 1,
                      IF msgs[i].type = "system" /\ msgs[i].lifespan # 0
                      THEN LifespanAt(msgs[i], i - 1, cu) ELSE cu)

CleanupMerge(cid, cu, updates) ==
    IF is_empty_channel_updates(cu) THEN updates
    ELSE internal_updates_reducer(updates, OneChannel(cid, cu))

CleanupChannel(cid, ch, updates) ==
    IF \/ ch.no_temporary_message_before = NoDate
       \/ ch.last_activity > ch.no_temporary_message_before
    THEN CleanupMerge(cid,
                      LifespanLoop(ch.messages, 1,
                                   [InternalChannelUpdates EXCEPT
                                       !.no_temporary_message_before = ch.last_activity]),
                      updates)
    ELSE updates

\* for channel_id, channel in s["history"].channels.items()
RECURSIVE CleanupLoop(_, _, _)
CleanupLoop(h, cids, updates) ==
    IF cids = <<>> THEN updates
    ELSE CleanupLoop(h, Tail(cids),
                     CleanupChannel(Head(cids), h.channels[Head(cids)], updates))

----------------------------------------------------------------------------
(* Initial values of the run, the record and the pair *)

\* no run in progress; updates is the local variable `updates` of the tool
\* stages, chat_history the History of the chat subgraph after local_merge
\* wakeup is State["wakeup"] (<<>> is None, <<w>> a WakeUp), internal_activity
\* State["internal_activity"]
Idle ==
    [pc |-> "idle", internal_updates |-> InternalUpdates, updates |-> InternalUpdates,
     chat_history |-> History, runs |-> 0, wakeup |-> <<>>,
     internal_activity |-> "regular"]

\* the end of a run: the fields of State that outlive it are kept
EndOfRun(p) ==
    [Idle EXCEPT !.runs = p.runs + 1, !.wakeup = p.wakeup,
                 !.internal_activity = p.internal_activity,
                 !.internal_updates = p.internal_updates]

\* drain is the last call of current_responses: the thread it found and the
\* responses it returned; outcomes[n] is what the tool of response n did;
\* processing holds the tool calls some drain reported as still running;
\* wakeups counts the wake-ups posted; target is the channel the last wakeup
\* stage selected and fired whether it called the wakeup_url of that channel
EmptyLog ==
    [submitted |-> {}, requests |-> 0, produced |-> 0, returned |-> <<>>,
     confirmed |-> {}, quick |-> {},
     drain |-> [made |-> FALSE, before |-> MCPThread, responses |-> <<>>],
     outcomes |-> <<>>, processing |-> {}, wakeups |-> 0, target |-> "none",
     fired |-> FALSE]

NoPair == [a |-> InternalUpdates, b |-> InternalUpdates,
           ab |-> History, ba |-> History, done |-> FALSE]

----------------------------------------------------------------------------
(* Specification Spec: the store under arbitrary reducer applications *)

Fits(h) == \A c \in DOMAIN h.channels : Len(h.channels[c].messages) <= MaxMsgs

Init ==
    /\ history \in Seeds
    /\ now = 1
    /\ applied = 0
    /\ lastOp = [kind |-> "init", err |-> "none", oob |-> FALSE]
    /\ mcp = MCPThread
    /\ pipe = Idle
    /\ log = EmptyLog
    /\ pair = NoPair

\* does the diff carry a positional update at or past the end of its channel
OutOfBounds(h, right) ==
    \E c \in DOMAIN right.channel_updates :
        \E i \in DOMAIN right.channel_updates[c].message_updates :
            i >= (IF c \in DOMAIN h.channels THEN Len(h.channels[c].messages) ELSE 0)

ReducerStep(kind, right, name) ==
    \E r \in {history_reducer(history, kind, right, now)} :
    /\ Fits(Stored(r))
    /\ history' = Stored(r)
    /\ applied' = applied + 1
    /\ lastOp' = [kind |-> name, err |-> r.err,
                  oob |-> kind \in {"dict", "updates"} /\ OutOfBounds(history, right)]
    /\ UNCHANGED <<now, mcp, pipe, log, pair>>

Tick ==
    /\ now < MaxDate
    /\ now' = now + 1
    /\ UNCHANGED <<history, applied, lastOp, mcp, pipe, log, pair>>

\* "reset" is applied; pair keeps the store it was applied to (ba)
ApplyReset ==
    /\ applied < MaxApply
    /\ \E r \in {history_reducer(history, "reset", "reset", now)} :
          /\ history' = Stored(r)
          /\ applied' = applied + 1
          /\ lastOp' = [kind |-> "reset", err |-> r.err, oob |-> FALSE]
          /\ pair' = [NoPair EXCEPT !.ba = history, !.done = TRUE]
    /\ UNCHANGED <<now, mcp, pipe, log>>

\* a full History is applied; pair keeps the incoming History (ab) and the
\* store it was applied to (ba)
ApplyHistory ==
    /\ applied < MaxApply
    /\ \E h \in Seeds :
       \E r \in {history_reducer(history, "history", h, now)} :
          /\ Fits(Stored(r))
          /\ history' = Stored(r)
          /\ applied' = applied + 1
          /\ lastOp' = [kind |-> "history", err |-> r.err, oob |-> FALSE]
          /\ pair' = [NoPair EXCEPT !.ab = h, !.ba = history, !.done = TRUE]
    /\ UNCHANGED <<now, mcp, pipe, log>>

ApplyDict ==
    /\ applied < MaxApply
    /\ \E c \in ChannelIds :
       \E nm \in {<<>>} \cup {<<m>> : m \in RawMessages} :
       \E tu \in {<<>>} \cup {<<u>> : u \in AdapterToolUpdates}
                \cup {<<ToolUpdate("t1", "confirmed", ""), ToolUpdate("t2", "rejected", "")>>,
                      <<ToolUpdate("t1", "confirmed", ""), ToolUpdate("t1", "canceled", "no")>>} :
           ReducerStep("dict",
                       [channel_updates |->
                           [x \in {c} |-> [InternalChannelUpdates EXCEPT !.new_messages = nm]],
                        current_channel |-> c, tool_updates |-> tu],
                       "dict")

ApplyNewMessages ==
    /\ applied < MaxApply
    /\ \E c \in ChannelIds : \E cu \in NewMessageDiffs :
           ReducerStep("updates", OneChannel(c, cu), "new_messages")

\* message_append_left is applied; pair keeps the diff (a) and the store it
\* was applied to (ba)
ApplyAppendLeft ==
    /\ applied < MaxApply
    /\ \E c \in ChannelIds : \E cu \in AppendLeftDiffs :
       \E r \in {history_reducer(history, "updates", OneChannel(c, cu), now)} :
          /\ Fits(Stored(r))
          /\ history' = Stored(r)
          /\ applied' = applied + 1
          /\ lastOp' = [kind |-> "message_append_left", err |-> r.err, oob |-> FALSE]
          /\ pair' = [NoPair EXCEPT !.a = OneChannel(c, cu), !.ba = history, !.done = TRUE]
    /\ UNCHANGED <<now, mcp, pipe, log>>

ApplyPositional ==
    /\ applied < MaxApply
    /\ \E c \in ChannelIds : \E cu \in PositionalDiffs :
           ReducerStep("updates", OneChannel(c, cu), "message_updates")

\* a diff that names both channels, the second with a positional update
ApplyTwoChannels ==
    /\ applied < MaxApply
    /\ \E cu1 \in {[InternalChannelUpdates EXCEPT !.name = "renamed"],
                   [InternalChannelUpdates EXCEPT !.new_messages = <<HumanMessage_(MaxDate)>>]} :
       \E cu2 \in PositionalDiffs :
           ReducerStep("updates",
                       [channel_updates |-> [x \in ChannelIds |-> IF x = "c1" THEN cu1 ELSE cu2],
                        current_channel |-> "c2", tool_updates |-> <<>>],
                       "two_channels")

ApplyDeletes ==
    /\ applied < MaxApply
    /\ \E c \in ChannelIds : \E cu \in DeleteDiffs :
           ReducerStep("updates", OneChannel(c, cu), "deletes")

Next ==
    \/ Tick
    \/ ApplyReset
    \/ ApplyHistory
    \/ ApplyDict
    \/ ApplyNewMessages
    \/ ApplyAppendLeft
    \/ ApplyPositional
    \/ ApplyTwoChannels
    \/ ApplyDeletes

Spec == Init /\ [][Next]_vars

----------------------------------------------------------------------------
(* Specification SpecMCP: the MCP thread under free submissions and drains *)

MaxRequests == 2

\* add_requests called with one or two requests
AddRequests ==
    /\ log.requests < MaxRequests
    /\ \E tids \in {<<"t1">>, <<"t2">>, <<"t1", "t2">>} :
          /\ mcp' = add_requests(mcp, tids)
          /\ log' = [log EXCEPT !.requests = @ + Len(tids)]
    /\ UNCHANGED <<history, now, applied, lastOp, pipe, pair>>

\* a _process_request task reaches its finally block: the tool completed or
\* failed.  Only a drain reads the queue, so a completion that falls in
\* another stage of a run is taken at the next wait of get_responses.
ProcessRequestDone ==
    /\ \E tid \in ToolIds :
       \E outcome \in ToolOutcomes :
          /\ pipe.pc \in {"idle", "tools_wait", "autotools_wait"}
          /\ mcp.tasks[tid] > 0
          /\ mcp' = process_request_done(mcp, response_of(tid, outcome, log.produced + 1))
          /\ log' = [log EXCEPT !.produced = @ + 1, !.outcomes = Append(@, outcome)]
    /\ UNCHANGED <<history, now, applied, lastOp, pipe, pair>>

\* a task past its finally lock posts its wake-up
IssueWakeup ==
    /\ \E tid \in ToolIds :
          /\ pipe.pc \in {"idle", "tools_wait", "autotools_wait"}
          /\ mcp.waking[tid] > 0
          /\ mcp' = wakeup_posted(mcp, tid)
    /\ log' = [log EXCEPT !.wakeups = @ + 1]
    /\ UNCHANGED <<history, now, applied, lastOp, pipe, pair>>

\* MCPClient.get_responses once its wait is over
GetResponses ==
    /\ \E d \in {current_responses(mcp)} :
          /\ mcp' = d.thread
          /\ log' = [log EXCEPT !.returned = @ \o TerminalSerials(d.responses),
                                !.drain = DrainOf(mcp, d.responses),
                                !.processing = @ \cup ProcessingIds(d.responses)]
    /\ UNCHANGED <<history, now, applied, lastOp, pipe, pair>>

NextMCP ==
    \/ AddRequests
    \/ ProcessRequestDone
    \/ IssueWakeup
    \/ GetResponses

SpecMCP == Init /\ [][NextMCP]_vars

\* the tools terminate: a running task reaches its finally block
SpecMCPFair == SpecMCP /\ WF_vars(ProcessRequestDone)

----------------------------------------------------------------------------
(* Specification SpecPipeline: runs of the graph (graphs/agents/meep.py).    *)
(* A stage's s["history"] is the object the store holds: the chat subgraph   *)
(* receives the parent's History through the History branch of the reducer, *)
(* which returns the object it was given.  Stages that branch in parallel    *)
(* are taken one after the other.  All dates lie within one time gap, so     *)
(* summarize_history finds a single, most recent region and emits nothing;   *)
(* messages carry no link, so the vision stage emits nothing.                *)

MaxRuns == 2

\* where a tool call lives, looked up by its id alone
HostOf(h, tid) == locate_tool_calls(h, <<tid>>)[tid]

ToolStateOf(h, tid) ==
    h.channels[HostOf(h, tid).cid].messages[HostOf(h, tid).idx + 1].states[tid]

\* a submission as the record keeps it: the state of the call in the History
\* the stage was given
Submission(stage, h, tid) ==
    [stage |-> stage, id |-> tid,
     internal_status |-> ToolStateOf(h, tid).internal_status,
     skip_confirmation |->
        tid \in h.channels[HostOf(h, tid).cid].messages[HostOf(h, tid).idx + 1].skip]

\* is the call unconfirmed in the last Agent message of some channel
LastAgent(msgs) ==
    IF \E i \in DOMAIN msgs : msgs[i].type = "ai"
    THEN SetMax({i \in DOMAIN msgs : msgs[i].type = "ai"}) ELSE 0

UnconfirmedInLastAgent(h, tid) ==
    \E c \in DOMAIN h.channels :
        /\ LastAgent(h.channels[c].messages) > 0
        /\ tid \in h.channels[c].messages[LastAgent(h.channels[c].messages)].calls
        /\ h.channels[c].messages[LastAgent(h.channels[c].messages)]
              .states[tid].internal_status = "unconfirmed"

UsedIds(h) ==
    UNION {UNION {h.channels[c].messages[i].calls : i \in DOMAIN h.channels[c].messages}
           : c \in DOMAIN h.channels}

\* the run input an adapter posts: the current channel, its name and
\* wakeup_url, the new
\* human messages (without date) and the tool updates of the user.  A run
\* starts later than the one before it ended.
AdapterInput(c, nm, tu) ==
    [channel_updates |->
        [x \in {c} |-> [InternalChannelUpdates EXCEPT !.name = "adapter",
                                                      !.wakeup_url = "url",
                                                      !.new_messages = nm]],
     current_channel |-> c, tool_updates |-> tu]

RunInput ==
    /\ pipe.pc = "idle"
    /\ pipe.runs < MaxRuns
    /\ \E c \in ChannelIds :
       \E nm \in {<<>>, <<Message("human", NoDate, "hi", {}, {}, <<>>, 0)>>} :
       \E tu \in {<<>>} \cup {<<u>> : u \in AdapterToolUpdates} :
       \E r \in {history_reducer(history, "dict", AdapterInput(c, nm, tu), now + 1)} :
          /\ r.err = "none"
          /\ history' = r.value
          /\ log' = [log EXCEPT
                        !.confirmed = {tu[i].tool_call_id : i \in
                                         {j \in DOMAIN tu :
                                            /\ tu[j].internal_status = "confirmed"
                                            /\ tu[j].tool_call_id \in UsedIds(history)
                                            /\ UnconfirmedInLastAgent(history,
                                                                     tu[j].tool_call_id)}},
                        !.quick = {}]
    /\ pipe' = [pipe EXCEPT !.pc = "preprocess"]
    /\ now' = now + 1
    /\ UNCHANGED <<applied, lastOp, mcp, pair>>

\* the run input of a wake-up: {"wakeup": {...}}, which the reducer of
\* State["wakeup"] validates; the History is not part of the input
WakeUp(channel_id, user_name, unless_active_since) ==
    [channel_id |-> channel_id, user_name |-> user_name,
     unless_active_since |-> unless_active_since]

\* unless_active_since is the moment the wake-up was asked for: this run's
\* clock at the latest
WakeUps(clock) ==
    {WakeUp(c, u, d) : c \in {"none", "c2"}, u \in {"none", "u1"},
                       d \in {1, clock - 1, clock}}

RunWakeup ==
    /\ pipe.pc = "idle"
    /\ pipe.runs < MaxRuns
    /\ \E w \in WakeUps(now + 1) : pipe' = [pipe EXCEPT !.pc = "preprocess", !.wakeup = <<w>>]
    /\ now' = now + 1
    /\ UNCHANGED <<history, applied, lastOp, mcp, log, pair>>

\* a preprocess that takes the regular route whatever the state holds
preprocess_goto_Regular(w) == "entrypoint"

\* preprocess: the stage it routes to
preprocess_goto(w) == IF w # <<>> THEN "wakeup" ELSE "entrypoint"

\* preprocess: with a wake-up, goto wakeup; else internal_updates and
\* internal_activity are reset, then chat and summarize
preprocess ==
    /\ pipe.pc = "preprocess"
    /\ pipe' = IF preprocess_goto(pipe.wakeup) = "wakeup"
               THEN [pipe EXCEPT !.pc = "wakeup"]
               ELSE [pipe EXCEPT !.pc = "entrypoint",
                                 !.internal_updates = InternalUpdates,
                                 !.internal_activity = "regular"]
    /\ UNCHANGED <<history, now, applied, lastOp, mcp, log, pair>>

\* timedelta(days=2); the clock of the wake-up route counts days
TwoDays == 2

\* every Human message of the model is written by the one user "u1"
AuthorOf(m) == "u1"

\* the reversed scan of one channel: the index of the most recent Human
\* message of the user dated after recent, 0 when there is none
LastRecentOf(msgs, user_name, recent) ==
    IF \E i \in DOMAIN msgs :
          msgs[i].type = "human" /\ AuthorOf(msgs[i]) = user_name /\ msgs[i].date > recent
    THEN SetMax({i \in DOMAIN msgs :
                   /\ msgs[i].type = "human"
                   /\ AuthorOf(msgs[i]) = user_name
                   /\ msgs[i].date > recent})
    ELSE 0

\* 1. for channel_id, channel in s["history"].channels.items(): a channel
\* whose last_activity is later than skip_channel_date is passed over
RECURSIVE UserChannelLoop(_, _, _, _, _, _)
UserChannelLoop(h, cids, user_name, recent, skip_channel_date, selected) ==
    IF cids = <<>> THEN selected
    ELSE IF h.channels[Head(cids)].last_activity > skip_channel_date
    THEN UserChannelLoop(h, Tail(cids), user_name, recent, skip_channel_date, selected)
    ELSE IF LastRecentOf(h.channels[Head(cids)].messages, user_name, recent) = 0
    THEN UserChannelLoop(h, Tail(cids), user_name, recent, skip_channel_date, selected)
    ELSE UserChannelLoop(
            h, Tail(cids), user_name,
            h.channels[Head(cids)].messages[
                LastRecentOf(h.channels[Head(cids)].messages, user_name, recent)].date,
            skip_channel_date, Head(cids))

\* 2. and 3.: the channel of the event, else the current channel
wakeup_fallback(h, w, selected) ==
    IF selected # "none" THEN selected
    ELSE IF w.channel_id # "none" /\ w.channel_id \in DOMAIN h.channels THEN w.channel_id
    ELSE get_current_channel_id(h)

\* the id of selected_channel in the wakeup stage
wakeup_target(h, w, clock) ==
    wakeup_fallback(
        h, w,
        IF w.user_name # "none"
        THEN UserChannelLoop(h, SelectSeq(ChannelOrder, LAMBDA c : c \in DOMAIN h.channels),
                             w.user_name, clock - TwoDays, clock - TwoDays, "none")
        ELSE "none")

\* selected_channel: a channel of the History or the stand-in of
\* get_current_channel
selected_channel(h, cid, clock) ==
    IF cid \in DOMAIN h.channels THEN h.channels[cid] ELSE Channel(clock)

\* a wakeup stage that calls the url whatever the activity of the channel
wakeup_fires_Always(ch, w) == ch.wakeup_url # "none"

\* the GET of the wakeup stage is issued
wakeup_fires(ch, w) ==
    /\ ch.wakeup_url # "none"
    /\ ch.last_activity < w.unless_active_since

\* the wakeup stage: the target is selected, its wakeup_url is called when
\* it has one and was not active since, wakeup is cleared and the run ends
wakeup ==
    /\ pipe.pc = "wakeup"
    /\ pipe' = EndOfRun([pipe EXCEPT !.wakeup = <<>>])
    /\ \E t \in {wakeup_target(history, pipe.wakeup[1], now)} :
          log' = [log EXCEPT
                    !.target = t,
                    !.fired = wakeup_fires(selected_channel(history, t, now),
                                           pipe.wakeup[1])]
    /\ UNCHANGED <<history, now, applied, lastOp, mcp, pair>>

\* entrypoint and activity: internal_activity is "regular" (or "vision
\* first") and the tools stage runs, or it is "idle" and the activity stage,
\* which reads the activity the run started with (WAITING), goes to
\* local_merge alone
entrypoint ==
    /\ pipe.pc = "entrypoint"
    /\ \E ia \in {"regular", "idle"} :
       \E goto \in IF ia = "regular" THEN {"tools"} ELSE {"local_merge"} :
          pipe' = [pipe EXCEPT !.pc = goto, !.internal_activity = ia]
    /\ UNCHANGED <<history, now, applied, lastOp, mcp, log, pair>>

\* the filters of the two tool stages
ToolsFilter_Reactive(info) == TRUE

ToolsFilter(info) == info.internal_status = "confirmed"

AutotoolsFilter(info) ==
    info.internal_status = "unconfirmed" /\ info.skip_confirmation = TRUE

Ids(infos) == [i \in DOMAIN infos |-> infos[i].id]

\* the first half of a tool stage, up to the wait of get_responses
Submit(stage, requests, updates, waiting) ==
    /\ mcp' = add_requests(mcp, Ids(requests))
    /\ pipe' = [pipe EXCEPT !.pc = waiting, !.updates = updates]
    /\ log' = [log EXCEPT
                  !.submitted = @ \cup {Submission(stage, history, requests[i].id)
                                        : i \in DOMAIN requests},
                  !.requests = @ + Len(requests)]
    /\ UNCHANGED <<history, now, applied, lastOp, pair>>

UpdatesOf(h, responses, clock) ==
    IF responses # <<>> THEN generate_updates_from_mcp_responses(h, responses, clock)
    ELSE [h |-> h, updates |-> InternalUpdates, err |-> "none"]

\* Command(update={"internal_updates": updates}) unless updates is empty
Emit(internal_updates, updates) ==
    IF is_empty(updates) THEN internal_updates
    ELSE internal_updates_reducer(internal_updates, updates)

Completed(responses) ==
    {[id |-> responses[i].tool_call_id, content |-> responses[i].content]
     : i \in {j \in DOMAIN responses : responses[j].status = "completed"}}

\* the second half of a tool stage: the drain, the updates made from the
\* responses on s["history"], and the Command.  A ValueError ends the run.
Collect(stage, d, g, goto) ==
    /\ mcp' = d.thread
    /\ history' = g.h
    /\ pipe' = IF g.err # "none"
               THEN EndOfRun(pipe)
               ELSE [pipe EXCEPT !.pc = goto,
                                 !.updates = InternalUpdates,
                                 !.internal_updates =
                                    Emit(@, internal_updates_reducer(pipe.updates,
                                                                     g.updates))]
    /\ log' = [log EXCEPT
                  !.returned = @ \o TerminalSerials(d.responses),
                  !.drain = DrainOf(mcp, d.responses),
                  !.processing = @ \cup ProcessingIds(d.responses),
                  !.quick = IF stage = "tools" THEN @ \cup Completed(d.responses) ELSE @]
    /\ UNCHANGED <<now, applied, lastOp, pair>>

tools ==
    /\ pipe.pc = "tools"
    /\ \E r \in {find_reactive_tool_calls(history)} :
          Submit("tools", SelectSeq(r.calls, ToolsFilter), r.updates, "tools_wait")

tools_get_responses ==
    /\ pipe.pc = "tools_wait"
    /\ \E d \in {current_responses(mcp)} :
       \E g \in {UpdatesOf(history, d.responses, now)} :
          Collect("tools", d, g, "local_merge")

\* local_merge: the History of the chat subgraph becomes the reducer's copy
local_merge ==
    /\ pipe.pc = "local_merge"
    /\ \E r \in {history_reducer(history, "updates", pipe.internal_updates, now)} :
          pipe' = [pipe EXCEPT !.pc = "agents", !.chat_history = Stored(r)]
    /\ UNCHANGED <<history, now, applied, lastOp, mcp, log, pair>>

\* what agent_conversation can yield: nothing, or one new Agent message in the
\* current channel, possibly with a tool call of a fresh id
AgentOutputs(h, clock) ==
    {InternalUpdates} \cup
    {OneChannel(get_current_channel_id(h),
                [InternalChannelUpdates EXCEPT
                    !.new_messages = <<from_message(clock, x.calls, x.skip)>>])
     : x \in {[calls |-> {}, skip |-> {}]} \cup
             UNION {{[calls |-> {t}, skip |-> {}], [calls |-> {t}, skip |-> {t}]}
                    : t \in ToolIds \ UsedIds(h)}}

agents ==
    /\ pipe.pc = "agents"
    /\ \E out \in AgentOutputs(pipe.chat_history, now) :
          pipe' = [pipe EXCEPT !.pc = "postprocess",
                               !.internal_updates = internal_updates_reducer(@, out)]
    /\ UNCHANGED <<history, now, applied, lastOp, mcp, log, pair>>

\* postprocess and the return of the subgraph: its History goes through the
\* History branch of the parent's reducer
postprocess ==
    /\ pipe.pc = "postprocess"
    /\ \E r \in {history_reducer(history, "history",
                                 IF is_empty_history(pipe.chat_history)
                                 THEN History ELSE pipe.chat_history, now)} :
          history' = r.value
    /\ pipe' = [pipe EXCEPT !.pc = "summarize", !.chat_history = History]
    /\ UNCHANGED <<now, applied, lastOp, mcp, log, pair>>

summarize ==
    /\ pipe.pc = "summarize"
    /\ pipe' = [pipe EXCEPT !.pc = "merge",
                            !.internal_updates = internal_updates_reducer(@, InternalUpdates)]
    /\ UNCHANGED <<history, now, applied, lastOp, mcp, log, pair>>

\* a merge that leaves internal_updates as it is
merge_NoReset ==
    /\ pipe.pc = "merge"
    /\ \E r \in {history_reducer(history, "updates", pipe.internal_updates, now)} :
          history' = Stored(r)
    /\ pipe' = [pipe EXCEPT !.pc = "autotools"]
    /\ UNCHANGED <<now, applied, lastOp, mcp, log, pair>>

\* merge: the accumulated updates are applied to the History and reset
merge ==
    /\ pipe.pc = "merge"
    /\ \E r \in {history_reducer(history, "updates", pipe.internal_updates, now)} :
          history' = Stored(r)
    /\ pipe' = [pipe EXCEPT !.pc = "autotools", !.internal_updates = InternalUpdates]
    /\ UNCHANGED <<now, applied, lastOp, mcp, log, pair>>

autotools ==
    /\ pipe.pc = "autotools"
    /\ \E r \in {find_reactive_tool_calls(history)} :
          Submit("autotools", SelectSeq(r.calls, AutotoolsFilter), r.updates,
                 "autotools_wait")

autotools_get_responses ==
    /\ pipe.pc = "autotools_wait"
    /\ \E d \in {current_responses(mcp)} :
       \E g \in {UpdatesOf(history, d.responses, now)} :
          Collect("autotools", d, g, "cleanup")

\* cleanup: the lifespan updates are accumulated onto s["internal_updates"],
\* the whole is applied to the History and internal_updates is reset
cleanup ==
    /\ pipe.pc = "cleanup"
    /\ \E updates \in {CleanupLoop(history,
                                   SelectSeq(ChannelOrder,
                                             LAMBDA c : c \in DOMAIN history.channels),
                                   pipe.internal_updates)} :
       \E r \in {history_reducer(history, "updates", updates, now)} :
          history' = Stored(r)
    /\ pipe' = EndOfRun([pipe EXCEPT !.internal_updates = InternalUpdates])
    /\ UNCHANGED <<now, applied, lastOp, mcp, log, pair>>

NextPipeline ==
    \/ RunInput
    \/ RunWakeup
    \/ preprocess
    \/ wakeup
    \/ entrypoint
    \/ tools
    \/ tools_get_responses
    \/ local_merge
    \/ agents
    \/ postprocess
    \/ summarize
    \/ merge
    \/ autotools
    \/ autotools_get_responses
    \/ cleanup
    \/ ProcessRequestDone

SpecPipeline == Init /\ [][NextPipeline]_vars

----------------------------------------------------------------------------
(* Specification SpecCommute: two diffs applied to one History in both      *)
(* orders, every application reading the same clock                          *)

ToolOnly(tid, internal_status) ==
    [channel_updates |-> <<>>, current_channel |-> "none",
     tool_updates |-> <<ToolUpdate(tid, internal_status, "")>>]

CommuteChannelDiffs ==
    {[InternalChannelUpdates EXCEPT !.new_messages = <<HumanMessage_(d)>>] : d \in {0, MaxDate}}
    \cup {[InternalChannelUpdates EXCEPT !.name = "renamed"],
          [InternalChannelUpdates EXCEPT !.message_deletes = <<0>>],
          [InternalChannelUpdates EXCEPT !.message_append_left = <<HumanMessage_(0)>>],
          [InternalChannelUpdates EXCEPT !.message_updates = [k \in {0} |-> HumanEdited(0)]]}

CommuteDiffs ==
    {OneChannel(c, cu) : c \in ChannelIds, cu \in CommuteChannelDiffs}
    \cup {[OneChannel(c, [InternalChannelUpdates EXCEPT !.name = "renamed"])
              EXCEPT !.current_channel = c] : c \in ChannelIds}
    \cup {ToolOnly(t, s) : t \in ToolIds, s \in {"confirmed", "rejected"}}
    \cup {[OneChannel(c, [InternalChannelUpdates EXCEPT
                             !.new_messages = <<HumanMessage_(MaxDate)>>])
              EXCEPT !.tool_updates = <<ToolUpdate(t, "confirmed", "")>>]
          : c \in ChannelIds, t \in ToolIds}

Addressed(u) == {u.tool_updates[i].tool_call_id : i \in DOMAIN u.tool_updates}

\* disjoint diffs: different channel ids, different tool calls, at most one
\* sets current_channel
Disjoint(a, b) ==
    /\ DOMAIN a.channel_updates \cap DOMAIN b.channel_updates = {}
    /\ Addressed(a) \cap Addressed(b) = {}
    /\ a.current_channel = "none" \/ b.current_channel = "none"

Raises(h, a, b, clock) ==
    \/ history_reducer(h, "updates", a, clock).err # "none"
    \/ history_reducer(Fold(h, "updates", a, clock), "updates", b, clock).err # "none"

ApplyBothOrders ==
    /\ ~pair.done
    /\ \E a \in CommuteDiffs : \E b \in CommuteDiffs :
          /\ Disjoint(a, b)
          /\ ~Raises(history, a, b, now)
          /\ ~Raises(history, b, a, now)
          /\ pair' = [a |-> a, b |-> b,
                      ab |-> Fold(Fold(history, "updates", a, now), "updates", b, now),
                      ba |-> Fold(Fold(history, "updates", b, now), "updates", a, now),
                      done |-> TRUE]
    /\ UNCHANGED <<history, now, applied, lastOp, mcp, pipe, log>>

NextCommute == ApplyBothOrders

SpecCommute == Init /\ [][NextCommute]_vars



----------------------------------------------------------------------------
(* Properties of the store under Spec *)

ChannelsOf(h) == DOMAIN h.channels
MessagesOf(h, c) == h.channels[c].messages
DatesOf(msgs) == {msgs[i].date : i \in DOMAIN msgs}

\* C1: after every reducer application the messages of every channel are in
\* non-decreasing date order.
C1_MessagesSorted ==
    \A c \in ChannelsOf(history) :
        \A i \in DOMAIN MessagesOf(history, c) : \A j \in DOMAIN MessagesOf(history, c) :
            i < j => MessagesOf(history, c)[i].date <= MessagesOf(history, c)[j].date

\* a diff appended <<human@MaxDate, edited@0>> to a channel it created, and the
\* reducer re-sorted the two
C1_Witness ==
    /\ lastOp.kind = "new_messages"
    /\ applied = 1
    /\ "c2" \in ChannelsOf(history)
    /\ MessagesOf(history, "c2") = <<HumanEdited(0), HumanMessage_(MaxDate)>>

\* C2: every channel that has messages has last_activity equal to the greatest
\* date of its messages.
C2_LastActivityIsMax ==
    \A c \in ChannelsOf(history) :
        MessagesOf(history, c) # <<>> =>
            history.channels[c].last_activity = SetMax(DatesOf(MessagesOf(history, c)))

\* C6: every Agent message has exactly one ToolState per tool call: the keys of
\* its tool states are the ids of its tool calls.
C6_ToolStateKeys ==
    \A c \in ChannelsOf(history) :
        \A i \in DOMAIN MessagesOf(history, c) :
            MessagesOf(history, c)[i].type = "ai" =>
                DOMAIN MessagesOf(history, c)[i].states = MessagesOf(history, c)[i].calls

\* C8: a diff with a positional update whose index is at or past the end of its
\* channel fails with the index error and leaves the History as it was.
C8_OutOfBoundsLeavesHistory ==
    [][(applied' = applied + 1 /\ lastOp'.oob)
          => (lastOp'.err = "index" /\ history' = history)]_vars

\* the two-channel diff (a change to c1, then an out-of-bounds index in c2) was
\* applied to a populated History and raised
C8_Witness ==
    /\ lastOp.kind = "two_channels"
    /\ lastOp.oob
    /\ lastOp.err = "index"
    /\ "c1" \in ChannelsOf(history)

\* the ToolState state machine
Allowed(a, b) ==
    \/ a = b
    \/ a = "unconfirmed" /\ b \in {"confirmed", "rejected", "canceled"}
    \/ a = "confirmed" /\ b = "processing"
    \/ a = "processing" /\ b \in {"completed", "failed"}

SameMessage(m1, m2) ==
    m1.type = m2.type /\ m1.date = m2.date /\ m1.text = m2.text /\ m1.calls = m2.calls

\* the channel kept every message where it was (messages were at most appended)
KeptInPlace(old, new) ==
    Len(old) <= Len(new) /\ \A i \in DOMAIN old : SameMessage(old[i], new[i])

\* C4: a ToolState's internal_status changes only along the edges of the state
\* machine, and never once it is completed, failed, rejected or canceled.
C4_ToolStateMachine ==
    [][(applied' = applied + 1 /\ lastOp'.kind = "dict") =>
        \A c \in ChannelsOf(history) \cap ChannelsOf(history') :
            KeptInPlace(MessagesOf(history, c), MessagesOf(history', c)) =>
                \A i \in DOMAIN MessagesOf(history, c) :
                    \A t \in DOMAIN MessagesOf(history, c)[i].states
                             \cap DOMAIN MessagesOf(history', c)[i].states :
                        Allowed(MessagesOf(history, c)[i].states[t].internal_status,
                                MessagesOf(history', c)[i].states[t].internal_status)]_vars


\* C10: every terminal response produced by a task is, at any moment, either
\* still in the terminal queue or has been returned by exactly one drain:
\* none is lost and none is returned twice.
C10_ReturnedExactlyOnce ==
    \A n \in 1..log.produced :
        Cardinality({i \in DOMAIN mcp.terminal_responses :
                        mcp.terminal_responses[i].serial = n})
        + Cardinality({i \in DOMAIN log.returned : log.returned[i] = n}) = 1

\* two responses were produced while a drain had already returned the first,
\* and a later drain returned the second
C10_Witness ==
    /\ log.produced = 3
    /\ log.returned = <<1, 2, 3>>
    /\ mcp.terminal_responses = <<>>


\* C3: every tool call handed to the MCP thread was, in the History the
\* submitting stage was given, confirmed (tools stage) or unconfirmed with
\* skip_confirmation = true (autotools stage); no call in another state is
\* ever submitted.
C3_SubmittedOnlyIfAllowed ==
    \A e \in log.submitted :
        \/ e.stage = "tools" /\ e.internal_status = "confirmed"
        \/ /\ e.stage = "autotools"
           /\ e.internal_status = "unconfirmed"
           /\ e.skip_confirmation = TRUE

\* both stages have submitted a call, and the History holds calls in states
\* that are not to be submitted
C3_Witness ==
    /\ \E e \in log.submitted : e.stage = "tools"
    /\ \E e \in log.submitted : e.stage = "autotools"
    /\ \E t \in UsedIds(history) :
          ToolStateOf(history, t).internal_status \in {"processing", "completed", "failed"}

HostMessages(h, tid) == h.channels[HostOf(h, tid).cid].messages

\* C5: when a run's input confirmed a call that was unconfirmed in the last
\* Agent message of a channel and the tools stage of that run received the
\* completed response with content c, the History persisted at the end of the
\* run holds the call as completed / success / c and its channel holds no
\* #toolupdated# message for it.
C5_ConfirmExecuteUpdate ==
    (pipe.pc = "idle" /\ pipe.runs > 0) =>
        \A q \in log.quick :
            q.id \in log.confirmed =>
                /\ ToolStateOf(history, q.id) =
                      InternalToolMessage("completed", "success", q.content)
                /\ \A i \in DOMAIN HostMessages(history, q.id) :
                      HostMessages(history, q.id)[i].text # ToolUpdatedText(q.id)

\* a run has ended in which t1 was confirmed and completed within the window
C5_Witness ==
    /\ pipe.pc = "idle"
    /\ pipe.runs > 0
    /\ "t1" \in log.confirmed
    /\ [id |-> "t1", content |-> "ok"] \in log.quick

\* C9: the History of the store changes only in the steps that apply
\* history_reducer to an emitted update (the run input, the return of the chat
\* subgraph, merge, cleanup); no stage changes the History it was given.
C9_OnlyReducerChangesHistory ==
    [][history' # history =>
          pipe.pc \in {"idle", "postprocess", "merge", "cleanup"}]_vars


\* the channels a diff touches in h: those it names and those hosting the
\* tool calls it addresses
Touched(h, u) ==
    DOMAIN u.channel_updates
    \cup {HostOf(h, t).cid : t \in {x \in Addressed(u) : HostOf(h, x) # NoPos}}

----------------------------------------------------------------------------
(* Specification SpecToolUpdates: one diff with tool_updates applied to a    *)
(* History, next to the same diff without the tool_updates whose id is in    *)
(* no channel                                                                *)

ToolUpdateLists ==
    {<<ToolUpdate(t, st, c)>> : t \in ToolIds, st \in {"confirmed", "rejected"},
                               c \in {"", "no"}}
    \cup {<<ToolUpdate("t2", "confirmed", ""), ToolUpdate("t1", "rejected", "no")>>,
          <<ToolUpdate("t1", "confirmed", ""), ToolUpdate("t2", "rejected", "no")>>}

ToolUpdateDiffs ==
    {[channel_updates |-> cu, current_channel |-> cc, tool_updates |-> tu] :
        cu \in {<<>>} \cup
               {[x \in {c} |-> [InternalChannelUpdates EXCEPT !.new_messages = <<m>>]] :
                   c \in ChannelIds, m \in {HumanMessage_(0), HumanMessage_(MaxDate)}},
        cc \in {"none"} \cup ChannelIds,
        tu \in ToolUpdateLists}

\* does some Agent message of some channel carry the tool call
Present(h, tid) ==
    \E c \in DOMAIN h.channels : \E i \in DOMAIN h.channels[c].messages :
        /\ h.channels[c].messages[i].type = "ai"
        /\ tid \in h.channels[c].messages[i].calls

\* the History the tool_updates of the diff are looked up in and applied to:
\* the channel_updates and current_channel of the diff are applied first
BeforeToolUpdates(h, right, clock) ==
    Fold(h, "updates", [right EXCEPT !.tool_updates = <<>>], clock)

WithoutMissing(h, right, clock) ==
    [right EXCEPT !.tool_updates =
        SelectSeq(@, LAMBDA u : Present(BeforeToolUpdates(h, right, clock), u.tool_call_id))]

ApplyToolUpdates ==
    /\ ~pair.done
    /\ \E a \in ToolUpdateDiffs :
       \E r \in {history_reducer(history, "updates", a, now)} :
       \E b \in {WithoutMissing(history, a, now)} :
          /\ pair' = [a |-> a, b |-> b, ab |-> r.value,
                      ba |-> Fold(history, "updates", b, now), done |-> TRUE]
          /\ lastOp' = [kind |-> "tool_updates", err |-> r.err, oob |-> FALSE]
    /\ UNCHANGED <<history, now, applied, mcp, pipe, log>>

NextToolUpdates == ApplyToolUpdates

SpecToolUpdates == Init /\ [][NextToolUpdates]_vars

----------------------------------------------------------------------------
(* Specification SpecResponses: one batch of MCP responses translated on a   *)
(* History, next to the same batch without the responses whose tool call is  *)
(* in no channel.  pair.a and pair.b hold the two batches, pair.ab and        *)
(* pair.ba what the method gave for each.                                    *)

ResponseBatches ==
    {<<response_of(t, o, 1)>> : t \in ToolIds, o \in ToolOutcomes}
    \cup {<<MCPResponse(t, "processing", "exec", 0)>> : t \in ToolIds}
    \cup {<<response_of(t1, o1, 1), response_of(t2, o2, 2)>> :
             t1 \in ToolIds, t2 \in ToolIds, o1 \in ToolOutcomes, o2 \in ToolOutcomes}

LocatedOnly(h, responses) == SelectSeq(responses, LAMBDA r : Present(h, r.tool_call_id))

ApplyResponses ==
    /\ ~pair.done
    /\ \E responses \in ResponseBatches :
       \E g \in {generate_updates_from_mcp_responses(history, responses, now)} :
          /\ history' = g.h
          /\ pair' = [a |-> responses,
                      b |-> LocatedOnly(history, responses),
                      ab |-> g,
                      ba |-> UpdatesOf(history, LocatedOnly(history, responses), now),
                      done |-> TRUE]
    /\ UNCHANGED <<now, applied, lastOp, mcp, pipe, log>>

NextResponses == ApplyResponses

SpecResponses == Init /\ [][NextResponses]_vars

----------------------------------------------------------------------------
(* The MCP thread: drains, outcomes and wake-ups *)

\* how many responses of a batch are terminal ones, and how many are
\* synthesized ones, for the tool call
CountTerminal(responses, tid) ==
    Cardinality({i \in DOMAIN responses :
                    /\ responses[i].tool_call_id = tid
                    /\ responses[i].status \in {"completed", "failed"}})

CountProcessing(responses, tid) ==
    Cardinality({i \in DOMAIN responses :
                    /\ responses[i].tool_call_id = tid
                    /\ responses[i].status = "processing"})

\* C11: a drain returns exactly one response for every request not yet
\* reported as terminal: one terminal response per request whose task had
\* finished (its response was in the queue) and one synthesized processing
\* response per request whose task was still running.
C11_OneResponsePerRequest ==
    log.drain.made =>
        \A tid \in ToolIds :
            /\ CountTerminal(log.drain.responses, tid)
                  = CountTerminal(log.drain.before.terminal_responses, tid)
            /\ CountProcessing(log.drain.responses, tid) = log.drain.before.tasks[tid]

\* C12: a drain cancels nothing.  A task leaves the running set only by
\* placing its one response at the end of the terminal queue; every request
\* submitted is running or has produced exactly one response; and a request
\* that a drain reported as still running leaves the pending set once its
\* tool has terminated.
C12_TimeoutIsNotCancellation ==
    /\ [](log.requests = log.produced + mcp.tasks["t1"] + mcp.tasks["t2"])
    /\ [][\A t \in ToolIds :
            mcp'.tasks[t] < mcp.tasks[t] =>
               /\ mcp'.tasks[t] = mcp.tasks[t] - 1
               /\ log'.produced = log.produced + 1
               /\ mcp'.terminal_responses # <<>>
               /\ mcp'.terminal_responses[Len(mcp'.terminal_responses)].tool_call_id = t
               /\ mcp'.terminal_responses[Len(mcp'.terminal_responses)].serial = log'.produced]_vars
    /\ \A t \in ToolIds :
          (t \in log.processing) ~>
              (mcp.tasks[t] = 0 /\ t \notin Range(mcp.pending_requests))

\* a drain reported t1 as still running, and a later drain returned its
\* terminal response
C12_Witness ==
    /\ "t1" \in log.processing
    /\ mcp.tasks["t1"] = 0
    /\ CountTerminal(log.drain.responses, "t1") = 1
    /\ CountProcessing(log.drain.responses, "t1") = 0

\* the texts a failed response can carry: the traceback of the tool's
\* exception, or the message of the thread when the toolkit raised
ErrorTexts == {"err", "MCP Failed to execute the tool"}

\* C13: a response whose tool raised or gave a non-success result is failed
\* and carries the error text, a response whose tool returned is completed
\* and carries the output; and a request with no task left running is not
\* in the pending set.
C13_FailureBecomesFailed ==
    /\ \A i \in DOMAIN mcp.terminal_responses :
          IF log.outcomes[mcp.terminal_responses[i].serial] = "returns"
          THEN /\ mcp.terminal_responses[i].status = "completed"
               /\ mcp.terminal_responses[i].content = "ok"
          ELSE /\ mcp.terminal_responses[i].status = "failed"
               /\ mcp.terminal_responses[i].content \in ErrorTexts
    /\ \A t \in ToolIds : mcp.tasks[t] = 0 => t \notin Range(mcp.pending_requests)

\* the queue holds the response of a tool that raised, the response of a
\* toolkit failure and the response of a tool that returned
C13_Witness ==
    /\ Len(mcp.terminal_responses) = 3
    /\ {log.outcomes[mcp.terminal_responses[i].serial] : i \in 1..3} = ToolOutcomes
    /\ mcp.pending_requests = <<>>

\* C14: every finished request (every response placed in the queue) has had
\* its one wake-up posted, or its task has left the lock of the finally
\* block (response in the queue, request out of the pending set) and is about
\* to post it; no wake-up is posted otherwise.
C14_OneWakeupPerFinishedRequest ==
    log.produced = log.wakeups + mcp.waking["t1"] + mcp.waking["t2"]

----------------------------------------------------------------------------
(* Tool updates in the reducer *)

\* C15: a diff holding a tool_update whose id is in no channel is applied
\* without error, and the History it gives is the one the same diff gives
\* without that tool_update: the other tool_updates and the channel_updates
\* are applied and nothing is changed or added for the missing id.
C15_MissingIdSkipped ==
    (pair.done /\ pair.b.tool_updates # pair.a.tool_updates) =>
        /\ lastOp.err = "none"
        /\ pair.ab = pair.ba

\* a diff with a new message, a tool_update of a missing id and a tool_update
\* of a located call was applied and changed the located call
C15_Witness ==
    /\ pair.done
    /\ pair.a.channel_updates # <<>>
    /\ Len(pair.a.tool_updates) = 2
    /\ Len(pair.b.tool_updates) = 1
    /\ pair.a.tool_updates[1] # pair.b.tool_updates[1]
    /\ pair.ab # BeforeToolUpdates(history, pair.a, now)

\* C16: a batch holding a response whose tool call is in no channel is
\* translated without raising, and gives the History and the updates that
\* the batch without that response gives.
C16_LocationMissSkipped ==
    (pair.done /\ pair.b # pair.a) =>
        /\ pair.ab.err = "none"
        /\ pair.ab.h = pair.ba.h
        /\ pair.ab.updates = pair.ba.updates

\* the messages of channel c before and after the tool_update tu of the diff
\* was applied to the call hosted at index i: the ToolState holds the new
\* internal_status (and the content when one is given), the transient
\* message is appended exactly when the host is not the last message, its
\* date is not earlier than the date of the message that was last, and no
\* other message is touched
AppliedAt(old, new, i, tu) ==
    /\ new[i].states[tu.tool_call_id].internal_status = tu.internal_status
    /\ tu.content # "" => new[i].states[tu.tool_call_id].content = tu.content
    /\ \A j \in DOMAIN old : j # i => new[j] = old[j]
    /\ IF i < Len(old)
       THEN /\ Len(new) = Len(old) + 1
            /\ new[Len(new)].type = "system"
            /\ new[Len(new)].text = ToolUpdatedText(tu.tool_call_id)
            /\ new[Len(new)].lifespan = 1
            /\ new[Len(new)].date >= old[Len(old)].date
       ELSE Len(new) = Len(old)

\* C17: a tool_update applied to a located call sets its ToolState and
\* appends '#toolupdated#<id>' with lifespan 1 if and only if the hosting
\* Agent message is not the last of its channel at that moment; the message
\* is dated not earlier than the previously last message.
C17_TransientIffNotLast ==
    (pair.done /\ Len(pair.a.tool_updates) = 1) =>
        \A c \in DOMAIN BeforeToolUpdates(history, pair.a, now).channels :
            \A i \in DOMAIN BeforeToolUpdates(history, pair.a, now).channels[c].messages :
                (/\ BeforeToolUpdates(history, pair.a, now).channels[c].messages[i].type = "ai"
                 /\ pair.a.tool_updates[1].tool_call_id \in
                       BeforeToolUpdates(history, pair.a, now).channels[c].messages[i].calls)
                => AppliedAt(BeforeToolUpdates(history, pair.a, now).channels[c].messages,
                             pair.ab.channels[c].messages, i, pair.a.tool_updates[1])

\* the diff brought a message dated after the clock to the channel of the
\* call, which made its host not last: the transient message was appended
\* with the date of that message
C17_Witness ==
    /\ pair.done
    /\ Len(pair.a.tool_updates) = 1
    /\ history = SeedS1
    /\ pair.a.tool_updates[1] = ToolUpdate("t1", "rejected", "no")
    /\ Len(pair.ab.channels["c1"].messages) = 4
    /\ pair.ab.channels["c1"].messages[4].date = MaxDate

----------------------------------------------------------------------------
(* The lifespan of transient messages *)

\* the messages of a channel that have a lifespan (0 stands for None)
Transient(msgs) == SelectSeq(msgs, LAMBDA m : m.type = "system" /\ m.lifespan # 0)

\* what a countdown pass leaves of them: those of lifespan 1 are gone, the
\* others have one pass less to live
CountedDown(temps) ==
    [i \in 1..Len(SelectSeq(temps, LAMBDA m : m.lifespan > 1)) |->
        [SelectSeq(temps, LAMBDA m : m.lifespan > 1)[i] EXCEPT !.lifespan = @ - 1]]

\* the transient messages the autotools stage left in internal_updates for
\* the channel; the cleanup stage hands them to the reducer with its own
\* updates
Arriving(u, c) ==
    IF c \in DOMAIN u.channel_updates THEN Transient(u.channel_updates[c].new_messages)
    ELSE <<>>

\* C18: the cleanup pass of a run decrements every System message that has a
\* lifespan and removes it when the lifespan would reach zero, in every
\* channel and whether or not the run brought new messages to the channel:
\* after the pass a channel holds, of the transient messages it held, those
\* of lifespan above 1 with one pass less, followed by the ones that arrive
\* with the pass.
C18_CleanupCountsDown ==
    [][pipe.pc = "cleanup" =>
          \A c \in DOMAIN history.channels :
              Transient(history'.channels[c].messages)
                  = CountedDown(Transient(history.channels[c].messages))
                    \o Arriving(pipe.internal_updates, c)]_vars

\* ---------------------------------------------------------------------------
\* The wake-up route
\* ---------------------------------------------------------------------------

RecentOfUser(h, user_name, clock) ==
    {p \in {<<c, i>> : c \in DOMAIN h.channels, i \in 1..MaxMsgs + 1} :
        /\ p[2] \in DOMAIN h.channels[p[1]].messages
        /\ h.channels[p[1]].messages[p[2]].type = "human"
        /\ AuthorOf(h.channels[p[1]].messages[p[2]]) = user_name
        /\ h.channels[p[1]].messages[p[2]].date > clock - TwoDays}

\* the targets the three rules allow: a channel holding a most recent such
\* message, else the channel of the event when the History has it, else the
\* current channel
ExpectedTargets(h, w, clock) ==
    IF w.user_name # "none" /\ RecentOfUser(h, w.user_name, clock) # {}
    THEN {p[1] : p \in {q \in RecentOfUser(h, w.user_name, clock) :
                          \A r \in RecentOfUser(h, w.user_name, clock) :
                             h.channels[r[1]].messages[r[2]].date
                                <= h.channels[q[1]].messages[q[2]].date}}
    ELSE IF w.channel_id # "none" /\ w.channel_id \in DOMAIN h.channels
    THEN {w.channel_id}
    ELSE {get_current_channel_id(h)}

\* C20: the wakeup stage selects the channel that holds the most recent Human
\* message of wakeup.user_name dated within the last two days when there is
\* such a message, otherwise the channel wakeup.channel_id when the History has
\* it, otherwise the current channel.
C20_WakeupTarget ==
    [][pipe.pc = "wakeup" =>
          log'.target \in ExpectedTargets(history, pipe.wakeup[1], now)]_vars

\* C21: the wakeup stage calls the wakeup_url of the selected channel only if
\* the channel has one and its last_activity is earlier than
\* wakeup.unless_active_since; when the channel was active at or after that
\* moment nothing is called and the History is left as it was.
C21_WakeupOnlyWhenInactive ==
    [][pipe.pc = "wakeup" =>
         \E ch \in {selected_channel(history, log'.target, now)} :
            /\ log'.fired =>
                  /\ ch.wakeup_url # "none"
                  /\ ch.last_activity < pipe.wakeup[1].unless_active_since
            /\ pipe.wakeup[1].unless_active_since <= ch.last_activity =>
                  /\ ~log'.fired
                  /\ history' = history]_vars

\* a wake-up run has called the wakeup_url of a channel of the History
C21_Witness ==
    /\ pipe.pc = "idle"
    /\ log.fired
    /\ log.target \in DOMAIN history.channels
    /\ history.channels[log.target].wakeup_url = "url"

----------------------------------------------------------------------------
(* Specification SpecGraph: the two graphs of agents/meep.py as the stages
   and their goto, run in supersteps.  Here pipe holds the position of a run
   in the graphs: the stages at work in the current superstep of the parent
   graph (todo) and of the chat subgraph (ctodo), the stages their Commands
   and edges have triggered for the next superstep (goto, cgoto), and the
   updates of the stages of a superstep, which reach the State when the
   superstep ends (new_activity, new_internal_activity). *)

WAITING == "waiting"
DEFAULT_ACTIVITY == "conversing"

ParentStages ==
    {"preprocess", "wakeup", "chat", "summarize", "merge", "afterthought",
     "autotools", "cleanup"}

ChatStages ==
    {"entrypoint", "tools", "activity", "vision", "knowledge", "local_merge",
     "agents", "postprocess"}

\* count: how many times each stage has started in this run; selected: what
\* the activity selector returned in this run ("none" before it has)
NoRun ==
    [pc |-> "idle", runs |-> 0,
     todo |-> {}, goto |-> {}, ctodo |-> {}, cgoto |-> {},
     count |-> [n \in ParentStages \cup ChatStages |-> 0],
     activity |-> DEFAULT_ACTIVITY, internal_activity |-> "regular",
     new_activity |-> "none", new_internal_activity |-> "none",
     wakeup |-> FALSE, link |-> FALSE, selected |-> "none"]

InitGraph ==
    /\ history = History
    /\ now = 1
    /\ applied = 0
    /\ lastOp = [kind |-> "init", err |-> "none", oob |-> FALSE]
    /\ mcp = MCPThread
    /\ pipe \in {[NoRun EXCEPT !.activity = a] : a \in {WAITING, DEFAULT_ACTIVITY}}
    /\ log = EmptyLog
    /\ pair = NoPair

\* the stages started when a superstep begins are counted
Started(count, stages) ==
    [n \in DOMAIN count |-> IF n \in stages THEN count[n] + 1 ELSE count[n]]

\* a run is posted: with or without a wake-up, the last message of the
\* current channel being mostly a link or not; the graph starts at preprocess
GraphRun ==
    /\ pipe.pc = "idle"
    /\ pipe.runs < MaxRuns
    /\ \E w \in BOOLEAN, l \in BOOLEAN :
          pipe' = [NoRun EXCEPT
                     !.pc = "running", !.runs = pipe.runs,
                     !.todo = {"preprocess"},
                     !.count = Started(NoRun.count, {"preprocess"}),
                     !.activity = pipe.activity,
                     !.internal_activity = pipe.internal_activity,
                     !.wakeup = w, !.link = l]
    /\ UNCHANGED <<history, now, applied, lastOp, mcp, log, pair>>

\* preprocess: goto wakeup, or goto (chat, summarize)
preprocess_next(p) ==
    IF p.wakeup THEN {"wakeup"} ELSE {"chat", "summarize"}

\* the goto of the stages of the parent graph
parent_next(p, n) ==
    CASE n = "preprocess" -> preprocess_next(p)
      [] n = "wakeup" -> {}
      [] n = "chat" -> {"merge"}
      [] n = "summarize" -> {"merge"}
      [] n = "merge" -> {"afterthought", "autotools"}
      [] n = "afterthought" -> {"cleanup"}
      [] n = "autotools" -> {"cleanup"}
      [] n = "cleanup" -> {}

\* a stage of the parent graph other than chat yields its Command
ParentStage ==
    /\ pipe.pc = "running"
    /\ \E n \in pipe.todo \ {"chat"} :
          pipe' = [pipe EXCEPT
                     !.todo = @ \ {n},
                     !.goto = @ \cup parent_next(pipe, n),
                     !.wakeup = IF n = "wakeup" THEN FALSE ELSE @,
                     !.new_internal_activity =
                         IF n = "preprocess" /\ ~pipe.wakeup THEN "regular" ELSE @]
    /\ UNCHANGED <<history, now, applied, lastOp, mcp, log, pair>>

\* entrypoint: internal_activity
entrypoint_mode(p) ==
    IF p.link THEN "vision first"
    ELSE IF p.activity = WAITING THEN "idle"
    ELSE "regular"

entrypoint_next(mode) ==
    CASE mode = "regular" -> {"tools", "activity", "vision", "knowledge"}
      [] mode = "vision first" -> {"vision"}
      [] mode = "idle" -> {"activity"}

\* activity: goto is fixed from s["internal_activity"] and s["activity"]
\* before the selector runs
activity_next(p, selected) ==
    CASE p.internal_activity = "regular" -> {"local_merge"}
      [] p.internal_activity = "idle" ->
            IF p.activity = WAITING THEN {"local_merge"}
            ELSE {"vision", "knowledge", "tools"}
      [] p.internal_activity = "vision first" -> {"local_merge"}

\* a vision stage that also goes on to local_merge at once
vision_next_Both(p) ==
    CASE p.internal_activity = "regular" -> {"local_merge"}
      [] p.internal_activity = "idle" -> {"local_merge"}
      [] p.internal_activity = "vision first" ->
            {"local_merge", "activity", "knowledge", "tools"}

vision_next(p) ==
    CASE p.internal_activity = "regular" -> {"local_merge"}
      [] p.internal_activity = "idle" -> {"local_merge"}
      [] p.internal_activity = "vision first" -> {"activity", "knowledge", "tools"}

\* the goto of the stages of the chat subgraph; selected is what the
\* activity selector returns
chat_next(p, n, selected) ==
    CASE n = "entrypoint" -> entrypoint_next(entrypoint_mode(p))
      [] n = "activity" -> activity_next(p, selected)
      [] n = "vision" -> vision_next(p)
      [] n = "knowledge" -> {"local_merge"}
      [] n = "tools" -> {"local_merge"}
      [] n = "local_merge" -> {"agents"}
      [] n = "agents" -> {"postprocess"}
      [] n = "postprocess" -> {}

\* a stage of the chat subgraph yields its Command
ChatStage ==
    /\ pipe.pc = "running"
    /\ \E n \in pipe.ctodo :
       \E selected \in IF n = "activity" THEN {WAITING, DEFAULT_ACTIVITY} ELSE {"none"} :
          pipe' = [pipe EXCEPT
                     !.ctodo = @ \ {n},
                     !.cgoto = @ \cup chat_next(pipe, n, selected),
                     !.new_internal_activity =
                         IF n = "entrypoint" THEN entrypoint_mode(pipe) ELSE @,
                     !.new_activity = IF n = "activity" THEN selected ELSE @,
                     !.selected = IF n = "activity" THEN selected ELSE @]
    /\ UNCHANGED <<history, now, applied, lastOp, mcp, log, pair>>

\* the updates of a superstep reach the State
Written(p) ==
    [p EXCEPT
       !.activity = IF p.new_activity # "none" THEN p.new_activity ELSE @,
       !.internal_activity =
           IF p.new_internal_activity # "none" THEN p.new_internal_activity ELSE @,
       !.new_activity = "none", !.new_internal_activity = "none"]

\* every stage of the superstep of the chat subgraph has ended: the stages
\* triggered start together
ChatSuperstep ==
    /\ pipe.pc = "running"
    /\ pipe.ctodo = {}
    /\ pipe.cgoto # {}
    /\ pipe' = [Written(pipe) EXCEPT
                  !.ctodo = pipe.cgoto, !.cgoto = {},
                  !.count = Started(pipe.count, pipe.cgoto)]
    /\ UNCHANGED <<history, now, applied, lastOp, mcp, log, pair>>

\* the chat subgraph has reached __end__: the chat stage of the parent ends
ChatEnd ==
    /\ pipe.pc = "running"
    /\ "chat" \in pipe.todo
    /\ pipe.ctodo = {}
    /\ pipe.cgoto = {}
    /\ pipe' = [pipe EXCEPT !.todo = @ \ {"chat"},
                            !.goto = @ \cup parent_next(pipe, "chat")]
    /\ UNCHANGED <<history, now, applied, lastOp, mcp, log, pair>>

\* every stage of the superstep of the parent graph has ended; chat starts
\* its subgraph at entrypoint
ParentSuperstep ==
    /\ pipe.pc = "running"
    /\ pipe.todo = {}
    /\ pipe.goto # {}
    /\ pipe' = [Written(pipe) EXCEPT
                  !.todo = pipe.goto, !.goto = {},
                  !.ctodo = IF "chat" \in pipe.goto THEN {"entrypoint"} ELSE {},
                  !.count = Started(pipe.count,
                                    pipe.goto \cup IF "chat" \in pipe.goto
                                                   THEN {"entrypoint"} ELSE {})]
    /\ UNCHANGED <<history, now, applied, lastOp, mcp, log, pair>>

\* __end__
GraphEnd ==
    /\ pipe.pc = "running"
    /\ pipe.todo = {}
    /\ pipe.goto = {}
    /\ pipe' = [Written(pipe) EXCEPT !.pc = "idle", !.runs = pipe.runs + 1]
    /\ UNCHANGED <<history, now, applied, lastOp, mcp, log, pair>>

NextGraph ==
    \/ GraphRun
    \/ ParentStage
    \/ ChatStage
    \/ ChatSuperstep
    \/ ChatEnd
    \/ ParentSuperstep
    \/ GraphEnd

SpecGraph == InitGraph /\ [][NextGraph]_vars

\* ---------------------------------------------------------------------------
\* The order of the stages
\* ---------------------------------------------------------------------------

\* the chat subgraph of this run is in its idle mode
IdleMode ==
    /\ pipe.pc = "running"
    /\ pipe.count["entrypoint"] = 1
    /\ pipe.internal_activity = "idle"

\* C22: in the idle mode of the chat subgraph the activity stage runs first
\* and alone; when the activity selector has returned a non-waiting activity,
\* vision, knowledge and tools have all run by the time local_merge starts,
\* and when it has returned waiting none of them has.
C22_IdleFansOutOnSelection ==
    /\ [](IdleMode /\ ( \/ pipe.count["vision"] > 0
                        \/ pipe.count["knowledge"] > 0
                        \/ pipe.count["tools"] > 0
                        \/ pipe.count["local_merge"] > 0)
            => pipe.count["activity"] = 1 /\ "activity" \notin pipe.ctodo)
    /\ [][(IdleMode /\ pipe'.count["local_merge"] > pipe.count["local_merge"]) =>
             IF pipe.selected # WAITING
             THEN /\ pipe.count["vision"] = 1 /\ "vision" \notin pipe.ctodo
                  /\ pipe.count["knowledge"] = 1 /\ "knowledge" \notin pipe.ctodo
                  /\ pipe.count["tools"] = 1 /\ "tools" \notin pipe.ctodo
             ELSE /\ pipe.count["vision"] = 0
                  /\ pipe.count["knowledge"] = 0
                  /\ pipe.count["tools"] = 0]_vars

\* the stage has run in this run and has ended
Finished(n) ==
    /\ pipe.count[n] >= 1
    /\ n \notin pipe.todo
    /\ n \notin pipe.ctodo

\* the stage starts in this step
Starts(n) == pipe'.count[n] > pipe.count[n]

\* C23: in a run without wake-up merge runs exactly once, after the chat
\* subgraph and summarize have both ended, and cleanup exactly once, after
\* afterthought and autotools have both ended; inside chat local_merge and
\* agents run exactly once each, after every stage the mode has started has
\* ended, and tools, activity, vision and knowledge run at most once each.
C23_JoinsRunOnce ==
    /\ [](\A n \in ParentStages \cup ChatStages : pipe.count[n] <= 1)
    /\ [][/\ (pipe.pc = "running" /\ Starts("merge")) =>
                /\ Finished("chat") /\ Finished("summarize")
                /\ pipe.ctodo = {} /\ pipe.cgoto = {}
          /\ (pipe.pc = "running" /\ Starts("cleanup")) =>
                Finished("afterthought") /\ Finished("autotools")
          /\ (pipe.pc = "running" /\ (Starts("local_merge") \/ Starts("agents"))) =>
                \A n \in ChatStages : pipe.count[n] >= 1 => Finished(n)
          /\ (pipe.pc = "running" /\ Starts("local_merge")) =>
                /\ Finished("activity")
                /\ pipe.internal_activity # "idle" =>
                      Finished("tools") /\ Finished("vision") /\ Finished("knowledge")
          /\ (pipe.pc = "running" /\ pipe'.pc = "idle" /\ pipe.count["wakeup"] = 0) =>
                /\ pipe.count["merge"] = 1
                /\ pipe.count["cleanup"] = 1
                /\ pipe.count["local_merge"] = 1
                /\ pipe.count["agents"] = 1]_vars

\* a run in the vision first mode has ended
C23_Witness ==
    /\ pipe.pc = "idle"
    /\ pipe.runs >= 1
    /\ pipe.count["cleanup"] = 1
    /\ pipe.count["local_merge"] = 1
    /\ pipe.count["vision"] = 1
    /\ pipe.count["tools"] = 1
    /\ pipe.link

\* ---------------------------------------------------------------------------
\* Full History values and "reset"
\* ---------------------------------------------------------------------------

C25_ResetEmpties ==
    [][(lastOp'.kind = "reset" /\ applied' = applied + 1) =>
          /\ lastOp'.err = "none"
          /\ history' = History
          /\ is_empty_history(history')]_vars

\* a store with channels has been reset
C25_Witness ==
    /\ lastOp.kind = "reset"
    /\ pair.done
    /\ DOMAIN pair.ba.channels = {"c1", "c2"}
    /\ history = History

----------------------------------------------------------------------------
(* Specification SpecPrune: delete_before applied, once and once more, to a
   channel that holds messages and summaries *)

Summary(min_date, max_date, summary) ==
    [min_date |-> min_date, max_date |-> max_date, summary |-> summary]

\* the summaries a channel can hold: each covers the dates min_date..max_date
StoredSummary ==
    {x \in {Summary(a, b, "s") : a \in Dates, b \in Dates} : x.min_date <= x.max_date}

SummaryLists ==
    {<<>>}
    \cup {<<x>> : x \in StoredSummary}
    \cup {<<x, y>> : x \in StoredSummary, y \in StoredSummary}
    \cup {<<Summary(0, 0, "s"), Summary(0, 1, "s"), Summary(1, 2, "s")>>}

\* a channel c1 of three messages and the summaries of the list, as the
\* reducer files them
PruneSeed(ss) ==
    Fold(History, "updates",
         OneChannel("c1", [InternalChannelUpdates EXCEPT
             !.new_messages = <<HumanMessage_(0), HumanMessage_(1), HumanMessage_(2)>>,
             !.new_summaries = ss]), 1)

InitPrune ==
    /\ history \in {PruneSeed(ss) : ss \in SummaryLists}
    /\ now = 1
    /\ applied = 0
    /\ lastOp = [kind |-> "init", err |-> "none", oob |-> FALSE]
    /\ mcp = MCPThread
    /\ pipe = Idle
    /\ log = EmptyLog
    /\ pair = NoPair

\* the diffs of the summarizer: delete_before alone or with a new summary
PruneDiffs ==
    {[InternalChannelUpdates EXCEPT !.delete_before = T, !.new_summaries = ns] :
        T \in Dates, ns \in {<<>>, <<Summary(1, 2, "n")>>, <<Summary(0, 0, "n")>>}}

\* the diff is applied to c1; pair keeps the diff (a), the store before (ba)
\* and the store after (ab)
Prune ==
    /\ applied = 0
    /\ \E cu \in PruneDiffs :
       \E r \in {history_reducer(history, "updates", OneChannel("c1", cu), now)} :
          /\ history' = Stored(r)
          /\ lastOp' = [kind |-> "prune", err |-> r.err, oob |-> FALSE]
          /\ pair' = [NoPair EXCEPT !.a = OneChannel("c1", cu), !.ba = history,
                                    !.ab = Stored(r)]
    /\ applied' = 1
    /\ UNCHANGED <<now, mcp, pipe, log>>

\* the same diff is applied once more, at the same or at a later moment
PruneAgain ==
    /\ applied = 1
    /\ \E r \in {history_reducer(history, "updates", pair.a, now)} :
          /\ history' = Stored(r)
          /\ lastOp' = [kind |-> "prune", err |-> r.err, oob |-> FALSE]
    /\ pair' = [pair EXCEPT !.done = TRUE]
    /\ applied' = 2
    /\ UNCHANGED <<now, mcp, pipe, log>>

NextPrune ==
    \/ Prune
    \/ PruneAgain
    \/ Tick

SpecPrune == InitPrune /\ [][NextPrune]_vars

\* ---------------------------------------------------------------------------
\* delete_before
\* ---------------------------------------------------------------------------

\* the summaries a channel holds
StoredIn(ch) ==
    UNION {{ch.summaries[k][j] : j \in DOMAIN ch.summaries[k]} : k \in DOMAIN ch.summaries}

\* those of them that end at T or later
Survivors(ch, T) == {x \in StoredIn(ch) : x.max_date >= T}

\* the diff applied to c1 in this behaviour
PruneDiff == pair.a.channel_updates["c1"]

\* the first application of the diff has been made
Pruned == applied = 1 /\ lastOp.kind = "prune" /\ lastOp.err = "none"

PrunedTwice ==
    /\ applied = 2
    /\ pair.done
    /\ lastOp.kind = "prune"
    /\ PruneDiff.new_summaries = <<>>

\* C27 as stated: a diff that carries only delete_before = T, applied twice in
\* a row, leaves the channel (messages, summaries and max_summary_date) as one
\* application does, also when no summary survives.
C27_PruneIdempotent ==
    PrunedTwice =>
       /\ history.channels["c1"].messages = pair.ab.channels["c1"].messages
       /\ history.channels["c1"].summaries = pair.ab.channels["c1"].summaries
       /\ history.channels["c1"].max_summary_date
             = pair.ab.channels["c1"].max_summary_date

\* C27, amended: applied twice in a row the diff leaves the messages and the
\* summaries of the channel as one application does, and max_summary_date as
\* well whenever a summary survives the prune.
C27_PruneIdempotentWithSurvivor ==
    PrunedTwice =>
       /\ history.channels["c1"].messages = pair.ab.channels["c1"].messages
       /\ history.channels["c1"].summaries = pair.ab.channels["c1"].summaries
       /\ StoredIn(pair.ab.channels["c1"]) # {} =>
             history.channels["c1"].max_summary_date
                = pair.ab.channels["c1"].max_summary_date

\* a prune that dropped messages and two entries of summaries and kept a
\* third has been repeated
C27_Witness ==
    /\ PrunedTwice
    /\ PruneDiff.delete_before = 2
    /\ DOMAIN pair.ba.channels["c1"].summaries = {0, 1, 2}
    /\ DOMAIN history.channels["c1"].summaries = {2}
    /\ Len(history.channels["c1"].messages) = 1

\* ---------------------------------------------------------------------------
\* message_append_left
\* ---------------------------------------------------------------------------

\* the channel the left-append diff of this behaviour is for, the messages
\* the diff carries and the messages the channel held before
LeftChannel == CHOOSE c \in DOMAIN pair.a.channel_updates : TRUE

LeftNews == pair.a.channel_updates[LeftChannel].message_append_left

LeftBefore ==
    IF LeftChannel \in DOMAIN pair.ba.channels
    THEN pair.ba.channels[LeftChannel].messages ELSE <<>>

LeftAfter == history.channels[LeftChannel].messages

LeftAppended ==
    /\ lastOp.kind = "message_append_left"
    /\ lastOp.err = "none"
    /\ pair.done

\* C28: every message of message_append_left is put at the head of the
\* channel, its date being the lesser of its own and that of the head it was
\* put before; the messages the channel held follow unchanged.
C28_LeftAppendClamps ==
    LeftAppended =>
       /\ Len(LeftAfter) = Len(LeftNews) + Len(LeftBefore)
       /\ \A j \in DOMAIN LeftBefore : LeftAfter[Len(LeftNews) + j] = LeftBefore[j]
       /\ \A i \in DOMAIN LeftNews :
             LeftAfter[Len(LeftNews) - i + 1] =
                [LeftNews[i] EXCEPT !.date =
                    IF Len(LeftNews) - i + 2 <= Len(LeftAfter)
                    THEN Min(@, LeftAfter[Len(LeftNews) - i + 2].date)
                    ELSE @]

\* a message dated 1 has been put before the messages dated 0 and 2, and the
\* channel holds the dates 0, 0, 2
C28_Witness ==
    /\ LeftAppended
    /\ Len(LeftNews) = 1
    /\ LeftNews[1].date = 1
    /\ Len(LeftBefore) = 2
    /\ LeftBefore[1].date = 0
    /\ LeftBefore[2].date = 2
    /\ [i \in 1..3 |-> LeftAfter[i].date] = <<0, 0, 2>>


----------------------------------------------------------------------------
(* Specification SpecAssemble: assemble_messages applied to the messages and
   the summaries of a stored channel *)

\* len() of the texts the model uses
len(text) ==
    CASE text = "" -> 0
      [] text = "s" -> 1
      [] text = "n" -> 1
      [] text = "hi" -> 2
      [] text = "re" -> 2
      [] text = "ed" -> 2
      [] text = "wait" -> 4
      [] text = "long" -> 4
      [] OTHER -> 1

\* isinstance(item, data.Summary)
IsSummary(item) == "min_date" \in DOMAIN item

\* sum(len(tool_msg.content or "") for the internal tool messages)
RECURSIVE ToolContents(_, _)
ToolContents(states, ids) ==
    IF ids = {} THEN 0
    ELSE LET t == CHOOSE x \in ids : TRUE
         IN len(IF states[t].content = "none" THEN "" ELSE states[t].content)
            + ToolContents(states, ids \ {t})

\* _count_message_size; a message without the attribute summary, or with
\* summary None or "", counts by its content
count_message_size(message, use_summary) ==
    IF IsSummary(message) THEN len(message.summary)
    ELSE (IF /\ "summary" \in DOMAIN message
             /\ message.summary \notin {"none", ""}
             /\ use_summary
          THEN len(message.summary)
          ELSE len(message.text))
         + (IF message.type = "ai"
            THEN ToolContents(message.states, DOMAIN message.states)
            ELSE 0)

\* the boundaries of an assembled item
item_end(item) == IF IsSummary(item) THEN item.max_date ELSE item.date
item_start(item) == IF IsSummary(item) THEN item.min_date ELSE item.date

\* list.insert(i0, x) with a 0-based index within the list
InsertAt(s, i0, x) == SubSeq(s, 1, i0) \o <<x>> \o SubSeq(s, i0 + 1, Len(s))

\* list[::-1]
Reverse(s) == [k \in 1..Len(s) |-> s[Len(s) + 1 - k]]

\* the locals of assemble_messages; insert_index -1 is None
AssembleState(min_message, min_date) ==
    [min_message |-> min_message, min_date |-> min_date, character_count |-> 0,
     assembled |-> <<>>, found_something |-> TRUE, insert_index |-> -1,
     raised |-> FALSE]

\* every assembled item that falls in the timeframe of the candidate is
\* removed, from the last index down; sub is the 1-based position
RECURSIVE RemoveLoop(_, _, _, _)
RemoveLoop(st, candidate_summary, sub, use) ==
    IF sub = 0 THEN st
    ELSE LET sub_item == st.assembled[sub]
             falls == IF IsSummary(sub_item)
                      THEN /\ sub_item.max_date >= candidate_summary.min_date
                           /\ sub_item.max_date <= candidate_summary.max_date
                      ELSE /\ sub_item.date >= candidate_summary.min_date
                           /\ sub_item.date <= candidate_summary.max_date
         IN RemoveLoop(IF falls
                       THEN [st EXCEPT
                               !.insert_index = sub - 1,
                               !.character_count = @ - count_message_size(sub_item, use),
                               !.assembled = DelAt(@, sub - 1)]
                       ELSE st,
                       candidate_summary, sub - 1, use)

\* the first candidate that starts before the item replaces what it covers
RECURSIVE CandidateLoop(_, _, _, _, _)
CandidateLoop(st, candidate_summaries, j, start, use) ==
    IF j > Len(candidate_summaries) THEN st
    ELSE IF candidate_summaries[j].min_date < start
    THEN LET r == RemoveLoop([st EXCEPT !.insert_index = -1], candidate_summaries[j],
                             Len(st.assembled), use)
         IN IF r.insert_index = -1 THEN [st EXCEPT !.raised = TRUE]
            ELSE [r EXCEPT
                    !.assembled = InsertAt(@, r.insert_index, candidate_summaries[j]),
                    !.character_count = @ + count_message_size(candidate_summaries[j], use),
                    !.found_something = TRUE]
    ELSE CandidateLoop(st, candidate_summaries, j + 1, start, use)

\* one pass over the items as they were when the pass began, oldest first
RECURSIVE ItemsLoop(_, _, _, _, _)
ItemsLoop(st, items, k, summaries, use) ==
    IF k > Len(items) \/ st.raised THEN st
    ELSE IF item_end(items[k]) \notin DOMAIN summaries
    THEN ItemsLoop(st, items, k + 1, summaries, use)
    ELSE ItemsLoop(CandidateLoop(st, summaries[item_end(items[k])], 1,
                                 item_start(items[k]), use),
                   items, k + 1, summaries, use)

\* while character_count > max_size and found_something
RECURSIVE BacktrackLoop(_, _, _, _)
BacktrackLoop(st, summaries, max_size, use) ==
    IF st.character_count > max_size /\ st.found_something /\ ~st.raised
    THEN BacktrackLoop(ItemsLoop([st EXCEPT !.found_something = FALSE],
                                 Reverse(st.assembled), 1, summaries, use),
                       summaries, max_size, use)
    ELSE st

\* a step that would keep the last item whatever the count
discard_Never(st, max_size) == st

\* still over the budget: assembled.pop(); character_count stays as it is
discard(st, max_size) ==
    IF st.character_count > max_size /\ ~st.raised
    THEN [st EXCEPT !.assembled = SubSeq(@, 1, Len(@) - 1)]
    ELSE st

\* the summary of the rank, or the message itself, is appended
include(st, msg, a) ==
    IF st.min_message = 0 /\ msg.date \in DOMAIN a.summaries
    THEN LET candidate_summaries == a.summaries[msg.date]
             idx == Min(a.summary_rank_threshold, Len(candidate_summaries) - 1)
             summary == candidate_summaries[idx + 1]
         IN [st EXCEPT
               !.character_count = @ + count_message_size(summary, a.use_message_summaries),
               !.assembled = Append(@, summary)]
    ELSE [st EXCEPT
            !.min_message = IF @ > 0 THEN @ - 1 ELSE @,
            !.character_count = @ + count_message_size(msg, a.use_message_summaries),
            !.assembled = Append(@, msg)]

\* the walk over the messages, newest first; i is the 1-based position.
\* max_message 0 and None are both falsy; NoDate is None
RECURSIVE MessagesLoop(_, _, _, _)
MessagesLoop(st, messages, i, a) ==
    IF i = 0 \/ st.raised THEN st
    ELSE LET msg == messages[i]
             early == st.min_date # NoDate /\ msg.date < st.min_date
         IN IF a.max_date # NoDate /\ msg.date >= a.max_date
            THEN MessagesLoop(st, messages, i - 1, a)
            ELSE IF early /\ st.min_message = 0 THEN st
            ELSE IF ~early /\ a.max_message # 0 /\ Len(st.assembled) >= a.max_message
            THEN st
            ELSE LET dated == IF early THEN [st EXCEPT !.min_date = msg.date] ELSE st
                     added == [include(dated, msg, a) EXCEPT !.found_something = TRUE]
                     back == BacktrackLoop(added, a.summaries, a.max_size,
                                           a.use_message_summaries)
                 IN MessagesLoop(discard(back, a.max_size), messages, i - 1, a)

\* assemble_messages; a holds the arguments. A raised ValueError returns
\* nothing
assemble_messages(a) ==
    LET st == MessagesLoop(AssembleState(a.min_message, a.min_date), a.messages,
                           Len(a.messages), a)
    IN [raised |-> st.raised,
        items |-> IF st.raised THEN <<>> ELSE Reverse(st.assembled)]

\* the messages a channel can hold: a human message, one with empty content,
\* an agent message with a waiting tool call
StoredMessages(d) ==
    {HumanMessage_(d), Message("human", d, "", {}, {}, <<>>, 0),
     from_message(d, {"t1"}, {})}

RECURSIVE MessageLists(_)
MessageLists(d) ==
    IF d > MaxDate THEN {<<>>}
    ELSE LET rest == MessageLists(d + 1)
         IN rest \cup {<<m>> \o r : m \in StoredMessages(d),
                                    r \in {x \in rest : Len(x) < MaxMsgs}}

\* the summaries of a channel: short ones and long ones
AssembleSummary ==
    {x \in {Summary(lo, hi, t) : lo \in Dates, hi \in Dates, t \in {"s", "long"}} :
        x.min_date <= x.max_date}

AssembleSummaryLists ==
    {<<>>}
    \cup {<<x>> : x \in AssembleSummary}
    \cup {<<x, y>> : x \in {s \in AssembleSummary : s.summary = "s"},
                     y \in {s \in AssembleSummary : s.summary = "long"}}

\* a channel c1 of the messages and the summaries, as the reducer files them
AssembleSeed(ms, ss) ==
    Fold(History, "updates",
         OneChannel("c1", [InternalChannelUpdates EXCEPT
             !.new_messages = ms, !.new_summaries = ss]), 0)

\* the arguments of a call on the channel c1 of the store h
AssembleArgs(h, rank, use, max_size, min_message, max_message, min_date, max_date) ==
    [messages |-> h.channels["c1"].messages,
     summaries |-> h.channels["c1"].summaries,
     summary_rank_threshold |-> rank, use_message_summaries |-> use,
     max_size |-> max_size, min_message |-> min_message,
     max_message |-> max_message, min_date |-> min_date, max_date |-> max_date]

InitAssemble ==
    /\ history \in {AssembleSeed(ms, ss) : ms \in MessageLists(0) \ {<<>>},
                                          ss \in AssembleSummaryLists}
    /\ now = MaxDate
    /\ applied = 0
    /\ lastOp = [kind |-> "init", err |-> "none", oob |-> FALSE]
    /\ mcp = MCPThread
    /\ pipe = Idle
    /\ log = EmptyLog
    /\ pair = NoPair

\* one call of assemble_messages on the channel c1; pair keeps the arguments
\* (a) and the returned list (ab)
Assemble ==
    /\ applied = 0
    /\ \E rank \in {0, 1}, max_size \in {0, 3}, min_message \in {0, 1},
          max_message \in {0, 2}, min_date \in {NoDate, 1}, max_date \in {NoDate, MaxDate} :
       \E a \in {AssembleArgs(history, rank, TRUE, max_size, min_message,
                              max_message, min_date, max_date)} :
          pair' = [NoPair EXCEPT !.a = a, !.ab = assemble_messages(a), !.done = TRUE]
    /\ applied' = 1
    /\ lastOp' = [kind |-> "assemble", err |-> "none", oob |-> FALSE]
    /\ UNCHANGED <<history, now, mcp, pipe, log>>

NextAssemble == Assemble

SpecAssemble == InitAssemble /\ [][NextAssemble]_vars


\* ---------------------------------------------------------------------------
\* assemble
\* ---------------------------------------------------------------------------

\* a call of assemble_messages has returned
Assembled == applied = 1 /\ lastOp.kind = "assemble" /\ ~pair.ab.raised

\* the returned list and its character count
Returned == pair.ab.items

RECURSIVE TotalSize(_, _)
TotalSize(items, use) ==
    IF items = <<>> THEN 0
    ELSE count_message_size(items[1], use) + TotalSize(SubSeq(items, 2, Len(items)), use)

\* every item ends no later than the next one
Chronological(items) ==
    \A k \in 1..(Len(items) - 1) : item_end(items[k]) <= item_end(items[k + 1])

\* C29: the list returned by assemble is in chronological order and its total
\* character count never exceeds max_size
C29_AssembleWithinBudget ==
    Assembled =>
        /\ Chronological(Returned)
        /\ TotalSize(Returned, pair.a.use_message_summaries) <= pair.a.max_size


\* a call with max_size = 0 has returned
ZeroBudget == Assembled /\ pair.a.max_size = 0

\* no message of the call has a character count of 0
NoEmptyMessage ==
    \A k \in DOMAIN pair.a.messages :
        count_message_size(pair.a.messages[k], pair.a.use_message_summaries) > 0

InsideOf(items, k, j) ==
    /\ k # j
    /\ IsSummary(items[j])
    /\ item_start(items[k]) >= items[j].min_date
    /\ item_end(items[k]) <= items[j].max_date

\* C31: in the list returned by assemble no message and no other summary
\* lies wholly inside the span of a summary that is also in the list
C31_SummaryReplacesItsMessages ==
    Assembled =>
        \A k \in DOMAIN Returned, j \in DOMAIN Returned : ~InsideOf(Returned, k, j)


\* ---------------------------------------------------------------------------
\* The updates generated from MCP responses
\* ---------------------------------------------------------------------------

\* the InternalUpdates returned hold, for the channel and the index of the
\* position, a message_updates entry whose ToolState of tid is the one the
\* method has set on the hosting message
HasMessageUpdate(g, position, tid) ==
    /\ position.cid \in DOMAIN g.updates.channel_updates
    /\ position.idx \in DOMAIN g.updates.channel_updates[position.cid].message_updates
    /\ g.updates.channel_updates[position.cid].message_updates[position.idx].states[tid]
         = g.h.channels[position.cid].messages[position.idx + 1].states[tid]

\* C32: for every response whose tool call is located, the InternalUpdates
\* returned by generate_updates_from_mcp_responses carry a message_updates
\* entry at the hosting message's index with the updated ToolState
C32_ResponseYieldsMessageUpdate ==
    pair.done /\ pair.ab.err = "none" =>
        \A i \in DOMAIN pair.a :
            LET tid == pair.a[i].tool_call_id
                position == locate_tool_calls(pair.ab.h, <<tid>>)[tid]
            IN position # NoPos => HasMessageUpdate(pair.ab, position, tid)


----------------------------------------------------------------------------
(* Specification SpecReactive: repeated passes of find_reactive_tool_calls
   on the store, each with its watermark updates applied, between the
   updates of the host, of the agent and of the MCP responses *)

\* the state of the tool call tid in h; "none" when no message hosts it
StateOf(h, tid) ==
    IF Present(h, tid)
    THEN LET c == CHOOSE c \in DOMAIN h.channels :
                     \E i \in DOMAIN h.channels[c].messages :
                         tid \in h.channels[c].messages[i].calls
             i == CHOOSE i \in DOMAIN h.channels[c].messages :
                     tid \in h.channels[c].messages[i].calls
         IN h.channels[c].messages[i].states[tid].internal_status
    ELSE "none"

\* args.skip_confirmation of the tool call tid
SkipsConfirmation(h, tid) ==
    \E c \in DOMAIN h.channels : \E i \in DOMAIN h.channels[c].messages :
        tid \in h.channels[c].messages[i].skip

\* the date of the last message of a channel; NoDate for an empty channel
LastDate(h, c) ==
    IF c \in DOMAIN h.channels /\ h.channels[c].messages # <<>>
    THEN h.channels[c].messages[Len(h.channels[c].messages)].date
    ELSE NoDate

\* one pass on the store: the reactive calls are returned; pair keeps the
\* returned calls (a), the watermark updates still to be applied (b) and the
\* store the pass has read (ba)
ReactivePass ==
    /\ ~pair.done
    /\ \E r \in {find_reactive_tool_calls(history)} :
          pair' = [NoPair EXCEPT !.a = r.calls, !.b = r.updates, !.ba = history,
                                 !.done = TRUE]
    /\ lastOp' = [kind |-> "pass", err |-> "none", oob |-> FALSE]
    /\ UNCHANGED <<history, now, applied, mcp, pipe, log>>

\* the merge that follows: the reducer applies the updates of the pass
ApplyWatermark ==
    /\ pair.done
    /\ history' = Fold(history, "updates", pair.b, now)
    /\ pair' = [pair EXCEPT !.done = FALSE]
    /\ lastOp' = [kind |-> "watermark", err |-> "none", oob |-> FALSE]
    /\ UNCHANGED <<now, applied, mcp, pipe, log>>

\* the agent answers in the current channel with a message, dated now and
\* later than every message of the channel, that holds a new tool call
AgentMessage ==
    /\ \E c \in ChannelIds \cap {history.current_channel},
          t \in ToolIds \ UsedIds(history), skip \in BOOLEAN :
          /\ now > LastDate(history, c)
          /\ \E h \in {Fold(history, "updates",
                            OneChannel(c, [InternalChannelUpdates EXCEPT
                                !.new_messages =
                                    <<from_message(now, {t}, IF skip THEN {t} ELSE {})>>]),
                            now)} :
                /\ Fits(h)
                /\ history' = h
    /\ lastOp' = [kind |-> "agent", err |-> "none", oob |-> FALSE]
    /\ UNCHANGED <<now, applied, mcp, pipe, log, pair>>

\* an adapter posts the tool_updates of a run input: the reducer takes a
\* choice for any stored call, whatever its state
HostToolUpdate ==
    /\ applied < MaxApply
    /\ \E u \in AdapterToolUpdates :
          /\ Present(history, u.tool_call_id)
          /\ \E h \in {Fold(history, "dict",
                            [channel_updates |-> <<>>, current_channel |-> "none",
                             tool_updates |-> <<u>>], now)} :
                /\ Fits(h)
                /\ history' = h
    /\ applied' = applied + 1
    /\ lastOp' = [kind |-> "tool_update", err |-> "none", oob |-> FALSE]
    /\ UNCHANGED <<now, mcp, pipe, log, pair>>

\* the responses of the MCP thread for a call that was submitted: the
\* placeholder, then the terminal response
Responses ==
    /\ \E t \in ToolIds :
       \E resp \in {MCPResponse(t, "processing", "exec", 0)}
                   \cup {response_of(t, o, 1) : o \in ToolOutcomes} :
          /\ StateOf(history, t) \in {"confirmed", "unconfirmed", "processing"}
          /\ StateOf(history, t) = "unconfirmed" => SkipsConfirmation(history, t)
          /\ StateOf(history, t) # "processing" => resp.status = "processing"
          /\ StateOf(history, t) = "processing" => resp.status # "processing"
          /\ \E g \in {generate_updates_from_mcp_responses(history, <<resp>>, now)} :
             \E h \in {Fold(g.h, "updates", g.updates, now)} :
                /\ Fits(h)
                /\ history' = h
    /\ lastOp' = [kind |-> "responses", err |-> "none", oob |-> FALSE]
    /\ UNCHANGED <<now, applied, mcp, pipe, log, pair>>

NextReactive ==
    \/ ReactivePass
    \/ ApplyWatermark
    \/ AgentMessage
    \/ HostToolUpdate
    \/ Responses
    \/ Tick

SpecReactive == Init /\ [][NextReactive]_vars

\* ---------------------------------------------------------------------------
\* The watermark of find_reactive_tool_calls
\* ---------------------------------------------------------------------------

\* the tool calls of h whose state is confirmed or unconfirmed
ReactiveIn(h) == {t \in ToolIds : StateOf(h, t) \in {"confirmed", "unconfirmed"}}

\* the ids of the calls a pass has returned
ReturnedIds == {pair.a[i].id : i \in DOMAIN pair.a}

\* C33: every tool call whose state is confirmed or unconfirmed is returned
\* by every pass of find_reactive_tool_calls, the watermark updates of the
\* earlier passes and other updates having been applied in between
C33_ReactiveCallsAlwaysReturned ==
    pair.done => ReactiveIn(pair.ba) \subseteq ReturnedIds

----------------------------------------------------------------------------
(* Specification SpecLocate: locate_tool_calls on stores whose channels may
   host the same tool call id *)

\* what a channel can hold when the search runs
LocateMessages ==
    {<<HumanMessage_(d)>> : d \in Dates}
    \cup {<<from_message(d, {t}, {})>> : d \in Dates, t \in ToolIds}
    \cup {<<from_message(0, {"t1"}, {}), from_message(d, {t}, {})>> :
             d \in Dates, t \in ToolIds}

\* the stores: c1 alone, or c1 and c2, filled by the reducer; current_channel
\* is unset, a stored channel, or the id of a channel that is not stored
LocateSeeds ==
    {Fold(Fold(History, "updates",
               OneChannel("c1", [InternalChannelUpdates EXCEPT !.new_messages = m1]), 0),
          "updates",
          [channel_updates |-> IF m2 = <<>> THEN <<>>
                               ELSE [x \in {"c2"} |->
                                       [InternalChannelUpdates EXCEPT !.new_messages = m2]],
           current_channel |-> cur, tool_updates |-> <<>>], 0) :
        m1 \in LocateMessages, m2 \in LocateMessages \cup {<<>>},
        cur \in {"none", "c1", "c2", "c9"}}

InitLocate ==
    /\ history \in LocateSeeds
    /\ now = MaxDate
    /\ applied = 0
    /\ lastOp = [kind |-> "init", err |-> "none", oob |-> FALSE]
    /\ mcp = MCPThread
    /\ pipe = Idle
    /\ log = EmptyLog
    /\ pair = NoPair

\* one call; pair keeps the id list (a) and the result (ab)
Locate ==
    /\ applied = 0
    /\ \E ids \in {<<t>> : t \in ToolIds}
                  \cup {<<t, u>> : t \in ToolIds, u \in ToolIds} :
          pair' = [NoPair EXCEPT !.a = ids, !.ab = locate_tool_calls(history, ids),
                                 !.done = TRUE]
    /\ applied' = 1
    /\ lastOp' = [kind |-> "locate", err |-> "none", oob |-> FALSE]
    /\ UNCHANGED <<history, now, mcp, pipe, log>>

NextLocate == Locate

SpecLocate == InitLocate /\ [][NextLocate]_vars

\* ---------------------------------------------------------------------------
\* The search order of locate_tool_calls
\* ---------------------------------------------------------------------------

\* the channels of h that host the tool call tid
HostsOf(h, tid) ==
    {c \in DOMAIN h.channels :
        \E i \in DOMAIN h.channels[c].messages :
            /\ h.channels[c].messages[i].type = "ai"
            /\ tid \in h.channels[c].messages[i].calls}

\* c is searched no later than d: it is the current channel, or d is not and
\* c was active at least as late as d
SearchedFirst(h, c, d) ==
    \/ c = h.current_channel
    \/ d # h.current_channel /\ h.channels[c].last_activity >= h.channels[d].last_activity

\* every asked id is attributed to the hosting channel that is searched
\* first, and to none when no channel hosts it
FirstHostWins(h, ids, results) ==
    \A k \in DOMAIN ids :
        IF HostsOf(h, ids[k]) = {} THEN results[ids[k]] = NoPos
        ELSE /\ results[ids[k]].cid \in HostsOf(h, ids[k])
             /\ \A d \in HostsOf(h, ids[k]) : SearchedFirst(h, results[ids[k]].cid, d)

Located == applied = 1 /\ lastOp.kind = "locate"

\* no id is asked for twice
NoRepeat(ids) == \A j \in DOMAIN ids, k \in DOMAIN ids : ids[j] = ids[k] => j = k

----------------------------------------------------------------------------
(* Specification SpecGroup: group_messages applied to what assemble_messages
   returns for a stored channel *)

\* the locals of group_messages once the newest threshold has been taken out
\* of the copy of time_gap_reference; rest holds the keys that are left
GroupState(time_gap_reference) ==
    [groups |-> <<>>, current_group |-> <<>>, last_message_date |-> NoDate,
     max_threshold |-> SetMax(DOMAIN time_gap_reference),
     max_time_gap |-> time_gap_reference[SetMax(DOMAIN time_gap_reference)],
     rest |-> DOMAIN time_gap_reference \ {SetMax(DOMAIN time_gap_reference)},
     raised |-> FALSE]

\* if time_gap_reference and message.date < max_threshold: the next
\* threshold is taken
NextThreshold(st, message, time_gap_reference) ==
    IF st.rest # {} /\ message.date < st.max_threshold
    THEN [st EXCEPT !.max_threshold = SetMax(st.rest),
                    !.max_time_gap = time_gap_reference[SetMax(st.rest)],
                    !.rest = @ \ {SetMax(st.rest)}]
    ELSE st

\* the item joins the current group or opens a new one
Place(st, message) ==
    LET joins == \/ st.current_group = <<>>
                 \/ item_start(message) - st.last_message_date <= st.max_time_gap
    IN [st EXCEPT
          !.groups = IF joins THEN @ ELSE Append(@, st.current_group),
          !.current_group = IF joins THEN Append(@, message) ELSE <<message>>,
          !.last_message_date = item_end(message)]

\* for message in messages; a Summary has no attribute date, so reading it
\* while a threshold is left raises AttributeError
RECURSIVE GroupLoop(_, _, _, _)
GroupLoop(st, messages, k, time_gap_reference) ==
    IF k > Len(messages) \/ st.raised THEN st
    ELSE IF st.rest # {} /\ IsSummary(messages[k]) THEN [st EXCEPT !.raised = TRUE]
    ELSE GroupLoop(Place(NextThreshold(st, messages[k], time_gap_reference), messages[k]),
                   messages, k + 1, time_gap_reference)

\* group_messages without max_group_size_reference
group_messages(messages, time_gap_reference) ==
    LET st == GroupLoop(GroupState(time_gap_reference), messages, 1, time_gap_reference)
    IN [raised |-> st.raised,
        groups |-> IF st.raised THEN <<>>
                   ELSE IF st.current_group # <<>> THEN Append(st.groups, st.current_group)
                   ELSE st.groups]

\* the gap schedules: a gap for the items up to now, and one for the items
\* of an earlier threshold
GapSchedules ==
    UNION {[S -> 0..1] : S \in {{MaxDate}, {0, MaxDate}, {1, MaxDate}}}

\* formatted_conversation: the current channel is assembled, then grouped;
\* pair keeps the assembled items and the schedule (a) and the groups (ab)
Group ==
    /\ applied = 0
    /\ \E min_message \in {0, 3}, time_gap_reference \in GapSchedules :
       \E r \in {assemble_messages(AssembleArgs(history, 0, TRUE, 4000, min_message,
                                                0, NoDate, NoDate))} :
          /\ ~r.raised
          /\ pair' = [NoPair EXCEPT
                        !.a = [messages |-> r.items,
                               time_gap_reference |-> time_gap_reference],
                        !.ab = group_messages(r.items, time_gap_reference),
                        !.done = TRUE]
    /\ applied' = 1
    /\ lastOp' = [kind |-> "group", err |-> "none", oob |-> FALSE]
    /\ UNCHANGED <<history, now, mcp, pipe, log>>

NextGroup == Group

SpecGroup == InitAssemble /\ [][NextGroup]_vars

\* ---------------------------------------------------------------------------
\* group
\* ---------------------------------------------------------------------------

\* group_messages has returned
Grouped == applied = 1 /\ lastOp.kind = "group" /\ ~pair.ab.raised

\* the number of items of the groups before the group g
RECURSIVE ItemsBefore(_, _)
ItemsBefore(groups, g) ==
    IF g = 1 THEN 0 ELSE ItemsBefore(groups, g - 1) + Len(groups[g - 1])

\* the item at position k of the list is the first of a group
OpensGroup(groups, k) == \E g \in DOMAIN groups : ItemsBefore(groups, g) + 1 = k

\* the thresholds that do not exceed the date of the item
ThresholdsUpTo(time_gap_reference, item) ==
    {thr \in DOMAIN time_gap_reference : thr <= item_end(item)}

\* C35: each item after the first opens a new group exactly when the gap from
\* the previous item's upper boundary to its lower boundary exceeds the
\* max_gap of the newest threshold that does not exceed the item's date
C35_GapOfNewestThreshold ==
    Grouped =>
        \A k \in 2..Len(pair.a.messages) :
            LET item == pair.a.messages[k]
                thrs == ThresholdsUpTo(pair.a.time_gap_reference, item)
            IN thrs # {} =>
                 (OpensGroup(pair.ab.groups, k)
                    <=> item_start(item) - item_end(pair.a.messages[k - 1])
                          > pair.a.time_gap_reference[SetMax(thrs)])

----------------------------------------------------------------------------
(* Specification SpecResubmit: the runs of the pipeline on stores that may
   hold an Agent message with two tool calls *)

\* the Agent has answered with one message that holds two tool calls
SeedPair ==
    Fold(History, "updates",
         [OneChannel("c1", [InternalChannelUpdates EXCEPT
              !.new_messages = <<HumanMessage_(0), from_message(1, {"t1", "t2"}, {})>>])
          EXCEPT !.current_channel = "c1"], 1)

InitResubmit ==
    /\ history \in Seeds \cup {SeedPair}
    /\ now = 1
    /\ applied = 0
    /\ lastOp = [kind |-> "init", err |-> "none", oob |-> FALSE]
    /\ mcp = MCPThread
    /\ pipe = Idle
    /\ log = EmptyLog
    /\ pair = NoPair

SpecResubmit == InitResubmit /\ [][NextPipeline]_vars

\* ---------------------------------------------------------------------------
\* Submissions across the runs of the pipeline
\* ---------------------------------------------------------------------------

\* the step hands a request for the tool call t to the MCP thread
SubmitsNow(t) == log'.requests > log.requests /\ mcp'.tasks[t] > mcp.tasks[t]

\* the tools stage has submitted t in an earlier step and a drain has
\* returned the processing placeholder for it
SubmittedAndPlaced(t) ==
    /\ \E e \in log.submitted : e.id = t /\ e.stage = "tools"
    /\ t \in log.processing

\* C36: once the tools stage has submitted a confirmed call and received the
\* processing placeholder for it, no later step of a tools or autotools stage
\* hands a request for the same call to the MCP thread
C36_SubmittedAtMostOnce ==
    [][\A t \in ToolIds : SubmittedAndPlaced(t) => ~SubmitsNow(t)]_vars

\* ---------------------------------------------------------------------------
\* The pending set of the MCP thread
\* ---------------------------------------------------------------------------

\* the entries pending_requests holds for the tool call id t
PendingEntries(t) ==
    Cardinality({i \in DOMAIN mcp.pending_requests : mcp.pending_requests[i] = t})

\* C37: the MCP thread holds one pending entry for every added request whose
\* task has not finished, requests added under an id that is still pending
\* included, and every response in the queue was placed by a task that left
\* the pending set without error (its wake-up is posted or about to be)
C37_OnePendingEntryPerRequest ==
    /\ \A t \in ToolIds : PendingEntries(t) = mcp.tasks[t]
    /\ log.produced = log.wakeups + mcp.waking["t1"] + mcp.waking["t2"]

\* ---------------------------------------------------------------------------
\* The application of the accumulated updates within a run
\* ---------------------------------------------------------------------------

\* how many times the list msgs holds the message m
Occurrences(msgs, m) == Cardinality({i \in DOMAIN msgs : msgs[i] = m})

\* the messages of channel c in h; none when h has no such channel
ChannelMessages(h, c) == IF c \in DOMAIN h.channels THEN h.channels[c].messages ELSE <<>>

\* the step is the merge or the cleanup stage of a run
AppliesAccumulated == pipe.pc \in {"merge", "cleanup"} /\ pipe'.pc # pipe.pc

\* the new messages waiting in internal_updates for channel c
Waiting(c) == pipe.internal_updates.channel_updates[c].new_messages

\* how many times channel c holds m after the step when the waiting new
\* messages are added once: what it held, plus the times m is waiting; the
\* cleanup stage may first have deleted every transient message it held
AddedOnce(c, m) ==
    {Occurrences(ChannelMessages(history, c), m) + Occurrences(Waiting(c), m)}
    \cup IF pipe.pc = "cleanup" /\ m.lifespan = 1
         THEN {Occurrences(Waiting(c), m)} ELSE {}

----------------------------------------------------------------------------
(* Specification SpecAccumulate: two diffs accumulated with
   internal_updates_reducer and applied once, next to the same two diffs
   applied one after the other *)

\* the diffs of the stages: those of the commutation check, and the
\* deletions by index and by date
AccumulateDiffs ==
    CommuteDiffs \cup {OneChannel(c, cu) : c \in ChannelIds, cu \in DeleteDiffs}

\* pair keeps a and b, the History of the single application (ab) and the
\* History of the two applications (ba); an application that raises leaves
\* the History it was given
AccumulateAndApply ==
    /\ ~pair.done
    /\ \E a \in AccumulateDiffs : \E b \in AccumulateDiffs :
          pair' = [a |-> a, b |-> b,
                   ab |-> Fold(history, "updates", internal_updates_reducer(a, b), now),
                   ba |-> Fold(Fold(history, "updates", a, now), "updates", b, now),
                   done |-> TRUE]
    /\ lastOp' = [kind |-> "accumulate", err |-> "none", oob |-> FALSE]
    /\ UNCHANGED <<history, now, applied, mcp, pipe, log>>

NextAccumulate == AccumulateAndApply

SpecAccumulate == Init /\ [][NextAccumulate]_vars

\* ---------------------------------------------------------------------------
\* Accumulated and successive application
\* ---------------------------------------------------------------------------

NoneRaises(h, a, b, clock) ==
    /\ ~Raises(h, a, b, clock)
    /\ history_reducer(h, "updates", internal_updates_reducer(a, b), clock).err = "none"

----------------------------------------------------------------------------
(* Specification SpecCutoff: one diff that carries delete_before together
   with messages and summaries of its own *)

\* delete_before = T with what a diff can add: new messages, messages
\* appended to the left, new summaries (those of the summarizer cover old
\* messages)
CutoffDiffs ==
    {[InternalChannelUpdates EXCEPT !.delete_before = T, !.new_messages = nm,
                                    !.message_append_left = al, !.new_summaries = ns] :
        T \in Dates,
        nm \in {<<>>, <<HumanEdited(0)>>, <<HumanEdited(MaxDate)>>},
        al \in {<<>>, <<HumanEdited(0)>>},
        ns \in {<<>>, <<Summary(0, 0, "n")>>, <<Summary(0, 1, "n")>>}}

\* the diff is applied to c1; pair keeps the diff (a), the store before (ba)
\* and the store after (ab)
Cutoff ==
    /\ applied = 0
    /\ \E cu \in CutoffDiffs :
       \E r \in {history_reducer(history, "updates", OneChannel("c1", cu), now)} :
          /\ history' = Stored(r)
          /\ lastOp' = [kind |-> "cutoff", err |-> r.err, oob |-> FALSE]
          /\ pair' = [NoPair EXCEPT !.a = OneChannel("c1", cu), !.ba = history,
                                    !.ab = Stored(r), !.done = TRUE]
    /\ applied' = 1
    /\ UNCHANGED <<now, mcp, pipe, log>>

NextCutoff ==
    \/ Cutoff
    \/ Tick

SpecCutoff == InitPrune /\ [][NextCutoff]_vars

\* ---------------------------------------------------------------------------
\* What delete_before leaves in a channel
\* ---------------------------------------------------------------------------

\* the diff has been applied
CutOff == lastOp.kind = "cutoff" /\ lastOp.err = "none"

\* the messages of c1 dated before T and its summaries that end before T
OlderMessages(h, T) == {m \in Range(h.channels["c1"].messages) : m.date < T}

OlderSummaries(h, T) == {x \in StoredIn(h.channels["c1"]) : x.max_date < T}

\* C40 as stated: after a diff with delete_before = T the channel holds no
\* message dated before T and no summary that ends before T, those the same
\* diff adds included
C40_NothingOlderThanCutoff ==
    CutOff =>
        /\ OlderMessages(history, PruneDiff.delete_before) = {}
        /\ OlderSummaries(history, PruneDiff.delete_before) = {}

\* C40, amended: after a diff with delete_before = T the channel holds none
\* of the messages it held before that are dated before T and none of the
\* summaries it held before that end before T; what is older than T in the
\* channel was added by the diff itself
C40_NothingStoredOlderThanCutoff ==
    CutOff =>
        /\ OlderMessages(history, PruneDiff.delete_before)
              \cap Range(pair.ba.channels["c1"].messages) = {}
        /\ OlderSummaries(history, PruneDiff.delete_before)
              \cap StoredIn(pair.ba.channels["c1"]) = {}

\* a diff has pruned a message and a summary of the channel and has left a
\* message and a summary of its own that are older than its delete_before
C40_Witness ==
    /\ CutOff
    /\ OlderMessages(pair.ba, PruneDiff.delete_before) # {}
    /\ OlderSummaries(pair.ba, PruneDiff.delete_before) # {}
    /\ OlderMessages(history, PruneDiff.delete_before) # {}
    /\ OlderSummaries(history, PruneDiff.delete_before) # {}

====
